---- MODULE Spec2Model ----
(***************************************************************************)
(* Model of the conditional clicker of windows/autoclicker_gui.py: the     *)
(* monitor worker thread (AutoclickerApp._monitor_loop), the UI handlers   *)
(* that start and stop it, and the serial channel they write to.           *)
(*                                                                         *)
(* Time is counted in ticks.  Every duration of the program (a sleep, a    *)
(* configured delay or timeout) is a number of ticks; the model keeps the  *)
(* order of the program's fixed durations (poll interval < perception      *)
(* back-off < effect exception retry), not their ratio.  A worker step     *)
(* runs from the end of one time.sleep() to the start of the next one.     *)
(***************************************************************************)
EXTENDS Integers, Sequences, FiniteSets, TLC

VARIABLES
    cfg,                \* the form values; once started, the arguments handed to the worker
    env,                \* what the screen can show (raw HP readings, template outcomes)
                        \* and whether serial_port.write() can raise
    monitoring,         \* self.monitoring
    running,            \* self.running (tab 1 autoclicker)
    serial_port,        \* self.serial_port: "none" or "open"
    monitor_start_btn,  \* state of the Start Monitoring button
    monitor_stop_btn,   \* state of the Stop Monitoring button
    closed,             \* root.destroy() has run
    afterq,             \* number of pending root.after(0, self._stop_monitoring) callbacks
    clock,              \* time.monotonic(), in ticks
    wk,                 \* per worker thread: position and the locals of _monitor_loop
    out,                \* what the last step wrote to the serial port, and who ran it
    recording,          \* whether the poll cycles are logged in hist
    hist,               \* log of the verified cycles (raw reading and verifier output)
    chan,               \* self._lock and each thread's position inside the serial functions
    dev                 \* the device: its position in code.py, buffers, keys held down

vars == <<cfg, env, monitoring, running, serial_port, monitor_start_btn, monitor_stop_btn,
          closed, afterq, clock, wk, out, recording, hist, chan, dev>>

----------------------------------------------------------------------------
(* Bounds of the model *)

MaxTime == 7
MaxHp == 2
MaxConfirm == 3
MaxHist == 4
MaxWorkers == 2

Workers == 1..MaxWorkers

(* The Tk main thread (0) and the worker threads *)
Threads == 0..MaxWorkers

(* Python's None for a float or a timestamp, and a perception exception *)
NONE == -1
ERR == -2
(* float("inf") *)
INF == 1000000

(* Fixed durations of the loop, in ticks *)
POLL_INTERVAL == 1
ERR_SLEEP == 2
SE_EXC_RETRY == 3

Readings == {NONE} \cup (0..MaxHp)

Max(a, b) == IF a >= b THEN a ELSE b

----------------------------------------------------------------------------
(* Configuration, as _start_monitoring validates it and hands it to the thread *)

BaseConfig ==
    [ stuck_s             |-> 2,
      target_key          |-> "t",
      tgt_min             |-> 1,
      tgt_max             |-> 2,
      no_target_timeout_s |-> 3,
      engage_s            |-> 1,
      attack_keys         |-> << [key |-> "a1", a_min |-> 1, a_max |-> 2] >>,
      status_effect_keys  |-> << >>,
      buff_keys           |-> << >>,
      buff_interval_s     |-> 2,
      death_key           |-> "d",
      death_delay         |-> 1,
      unstuck_key1        |-> "u1",
      unstuck_dur1        |-> 1,
      unstuck_key2        |-> "u2",
      unstuck_dur2        |-> 1,
      hp_confirm_count    |-> 2 ]

(* The checks of _start_monitoring on the form values: every one of them returns
   before the port is opened.  The buff interval is not among them. *)
ValidConfig(c) ==
    /\ c.stuck_s > 0
    /\ c.unstuck_key1 # "" /\ c.unstuck_key2 # ""
    /\ c.unstuck_dur1 > 0 /\ c.unstuck_dur2 > 0
    /\ c.target_key # ""
    /\ c.tgt_min > 0 /\ c.tgt_max >= c.tgt_min
    /\ c.no_target_timeout_s >= 0
    /\ c.engage_s >= 0
    /\ c.hp_confirm_count >= 1
    /\ Len(c.attack_keys) >= 1
    /\ \A i \in 1..Len(c.attack_keys) :
          c.attack_keys[i].a_min > 0 /\ c.attack_keys[i].a_max >= c.attack_keys[i].a_min
    /\ \A i \in 1..Len(c.status_effect_keys) :
          /\ c.status_effect_keys[i].key # ""
          /\ c.status_effect_keys[i].tpl
          /\ c.status_effect_keys[i].retry_min > 0
          /\ c.status_effect_keys[i].retry_max >= c.status_effect_keys[i].retry_min
    /\ \A i \in 1..Len(c.buff_keys) :
          c.buff_keys[i].key # "" /\ c.buff_keys[i].tpl
    /\ c.death_delay >= 0

(* Lines 1296-1303: a buff interval that is not a positive number is replaced *)
DEFAULT_BUFF_INTERVAL == 2

ThreadArgs(c) ==
    [c EXCEPT !.buff_interval_s = IF @ <= 0 THEN DEFAULT_BUFF_INTERVAL ELSE @]

Configs ==
    { [BaseConfig EXCEPT !.death_key = dk, !.no_target_timeout_s = nt] :
        dk \in {"", "d"}, nt \in {0, 3} }

VerifierConfigs ==
    { [BaseConfig EXCEPT !.hp_confirm_count = c, !.stuck_s = 100, !.tgt_max = 1,
                         !.attack_keys = << [key |-> "a1", a_min |-> 1, a_max |-> 1] >>]
        : c \in 1..MaxConfirm }

EffectConfigs ==
    { [BaseConfig EXCEPT
         !.status_effect_keys =
             << [key |-> "e1", tpl |-> TRUE, retry_min |-> 1, retry_max |-> 2],
                [key |-> "e2", tpl |-> TRUE, retry_min |-> 2, retry_max |-> 2] >>,
         !.buff_keys = << [key |-> "b1", tpl |-> TRUE] >>] }

(* What perception can return *)
Outcomes == {"hit", "miss", "exc"}
FullEnv == [readings |-> Readings \cup {ERR}, matches |-> Outcomes, writes |-> {TRUE}]

----------------------------------------------------------------------------
(* Serial commands *)

Press(k) == [c |-> "PRESS", k |-> k, d |-> 0]
Hold(k, d) == [c |-> "HOLD", k |-> k, d |-> d]
StopCmd == [c |-> "STOP", k |-> "", d |-> 0]
StartCmd == [c |-> "START", k |-> "", d |-> 0]

(* _serial_send: the bytes reach the port only when it is open *)
SerialSend(port, msgs) == IF port = "open" THEN msgs ELSE << >>

(* The messages of msgs whose write() did not raise (written[i] is TRUE) *)
Delivered(msgs, written) ==
    LET idx == SelectSeq([i \in 1..Len(msgs) |-> i], LAMBDA i : written[i])
    IN [j \in 1..Len(idx) |-> msgs[idx[j]]]

(* mutant: a failed _serial_send ends the worker *)
SendResultRaises(s, lost) == IF lost > 0 THEN [s EXCEPT !.pc = "exit"] ELSE s

(* The worker never reads what _serial_send returns *)
SendResult(s, lost) == s

----------------------------------------------------------------------------
(* The locals of _monitor_loop *)

IdleLocals ==
    [ pc |-> "idle", wake |-> 0, now |-> 0,
      session_at |-> NONE,    \* not a local: the time the current session was created
      se_pressed_at |-> << >>, \* not a local: per effect slot, its last press in the session
      hp_since |-> NONE, no_target_since |-> NONE,
      prev_hp_visible |-> FALSE, prev_hp_pct |-> NONE, stuck_count |-> 0,
      hp_gone_streak |-> 0, hp_zero_streak |-> 0, last_good_hp |-> NONE,
      next_press |-> << >>, se_applied |-> << >>, next_se_check |-> << >>,
      next_buff_check |-> INF,
      raw_hp |-> NONE, hp_pct |-> NONE, hp_visible |-> FALSE ]

InitLocals(c, now) ==
    [ IdleLocals EXCEPT
        !.pc = "start", !.wake = now, !.now = now,
        !.next_press = [i \in 1..Len(c.attack_keys) |-> now],
        !.se_pressed_at = [i \in 1..Len(c.status_effect_keys) |-> NONE],
        !.se_applied = [i \in 1..Len(c.status_effect_keys) |-> FALSE],
        !.next_se_check = [i \in 1..Len(c.status_effect_keys) |-> now],
        !.next_buff_check = IF c.buff_keys # << >> THEN now + c.buff_interval_s ELSE INF ]

(* The device after code.py has started: main() is at the top of `while True`,
   nothing was received, no key is down.  `wire` holds the characters the host has
   written that the device's input buffer has not received yet, `rx` that buffer;
   `sent`, `stop_after_start` and `line` are not state of the device: they count the
   lines the host wrote, remember a STOP written after a START, and keep the line
   main() last took from its buffer. *)
DevBoot ==
    [ pc |-> "main_top", wire |-> << >>, rx |-> << >>, line_buf |-> << >>, buf |-> << >>,
      keys |-> << >>, idx |-> 0, down |-> {},
      sent |-> 0, stop_after_start |-> FALSE, line |-> << >> ]

----------------------------------------------------------------------------
(* HP verification *)

(* mutant: the last good value is the lowest reading > 0 seen *)
CountStreaksKeepsLowest(s, raw) ==
    IF raw = NONE
      THEN [s EXCEPT !.hp_gone_streak = @ + 1, !.hp_zero_streak = 0]
      ELSE IF raw = 0
        THEN [s EXCEPT !.hp_zero_streak = @ + 1, !.hp_gone_streak = 0]
        ELSE [s EXCEPT !.hp_gone_streak = 0, !.hp_zero_streak = 0,
                       !.last_good_hp = IF @ # NONE /\ @ < raw THEN @ ELSE raw]

(* mutant: a None and a 0 do not reset each other's streak *)
CountStreaksNoInterrupt(s, raw) ==
    IF raw = NONE
      THEN [s EXCEPT !.hp_gone_streak = @ + 1]
      ELSE IF raw = 0
        THEN [s EXCEPT !.hp_zero_streak = @ + 1]
        ELSE [s EXCEPT !.hp_gone_streak = 0, !.hp_zero_streak = 0, !.last_good_hp = raw]

(* Lines 1478-1487 *)
CountStreaks(s, raw) ==
    IF raw = NONE
      THEN [s EXCEPT !.hp_gone_streak = @ + 1, !.hp_zero_streak = 0]
      ELSE IF raw = 0
        THEN [s EXCEPT !.hp_zero_streak = @ + 1, !.hp_gone_streak = 0]
        ELSE [s EXCEPT !.hp_gone_streak = 0, !.hp_zero_streak = 0, !.last_good_hp = raw]

(* mutant: confirms one reading early *)
GoneConfirmedEarly(s, c) == s.hp_gone_streak >= c.hp_confirm_count - 1

GoneConfirmed(s, c) == s.hp_gone_streak >= c.hp_confirm_count

ZeroConfirmed(s, c) == s.hp_zero_streak >= c.hp_confirm_count

(* mutant: a confirmed 0 is reported as an absence *)
VerifiedHpZeroIsGone(s, raw, c) ==
    IF raw = NONE /\ ~GoneConfirmed(s, c) /\ s.last_good_hp # NONE
      THEN s.last_good_hp
      ELSE IF raw = 0 /\ ~ZeroConfirmed(s, c) /\ s.last_good_hp # NONE
        THEN s.last_good_hp
        ELSE IF raw = 0 /\ ZeroConfirmed(s, c) THEN NONE ELSE raw

(* mutant: an unconfirmed 0 is passed through instead of held *)
VerifiedHpNoZeroHold(s, raw, c) ==
    IF raw = NONE /\ ~GoneConfirmed(s, c) /\ s.last_good_hp # NONE
      THEN s.last_good_hp
      ELSE raw

VerifiedHp(s, raw, c) ==
    IF raw = NONE /\ ~GoneConfirmed(s, c) /\ s.last_good_hp # NONE
      THEN s.last_good_hp
      ELSE IF raw = 0 /\ ~ZeroConfirmed(s, c) /\ s.last_good_hp # NONE
        THEN s.last_good_hp
        ELSE raw

(* Lines 1479-1512: the streaks, the verified value, hp_visible and now *)
Verify(s, raw, c, t) ==
    LET s1 == CountStreaks(s, raw)
        hp == VerifiedHp(s1, raw, c)
    IN [s1 EXCEPT !.raw_hp = raw, !.hp_pct = hp, !.hp_visible = (hp # NONE), !.now = t]

----------------------------------------------------------------------------
(* The engaged branch: session, stuck detection, attacks, effects, buffs *)

(* One value per slot: an option of the slot where it is needed, dflt elsewhere *)
PickPer(n, Need(_), Opt(_), dflt) ==
    { f \in [1..n -> UNION { Opt(i) : i \in 1..n } \cup {dflt}] :
        \A i \in 1..n : IF Need(i) THEN f[i] \in Opt(i) ELSE f[i] = dflt }

(* PRESS commands for the slots that satisfy P, in configured order *)
PressesWhere(keys, P(_)) ==
    LET idx == SelectSeq([i \in 1..Len(keys) |-> i], P)
    IN [j \in 1..Len(idx) |-> Press(keys[idx[j]].key)]

(* mutant: a new session starts with no strikes *)
NewSessionResetsStrikes(s, c, sej) ==
    [ s  |-> [s EXCEPT
                !.session_at = s.now,
                !.se_pressed_at = [i \in 1..Len(c.status_effect_keys) |-> s.now],
                !.hp_since = s.now,
                !.prev_hp_pct = s.hp_pct,
                !.stuck_count = 0,
                !.next_press = [i \in 1..Len(c.attack_keys) |-> s.now + c.engage_s],
                !.se_applied = [i \in 1..Len(c.status_effect_keys) |-> FALSE],
                !.next_se_check =
                    [i \in 1..Len(c.status_effect_keys) |-> s.now + sej[i]]],
      tx |-> [j \in 1..Len(c.status_effect_keys) |->
                 Press(c.status_effect_keys[j].key)] ]

(* mutant: a new session presses the effect keys last to first *)
NewSessionReverseOrder(s, c, sej) ==
    [ s  |-> [s EXCEPT
                !.session_at = s.now,
                !.se_pressed_at = [i \in 1..Len(c.status_effect_keys) |-> s.now],
                !.hp_since = s.now,
                !.prev_hp_pct = s.hp_pct,
                !.next_press = [i \in 1..Len(c.attack_keys) |-> s.now + c.engage_s],
                !.se_applied = [i \in 1..Len(c.status_effect_keys) |-> FALSE],
                !.next_se_check =
                    [i \in 1..Len(c.status_effect_keys) |-> s.now + sej[i]]],
      tx |-> [j \in 1..Len(c.status_effect_keys) |->
                 Press(c.status_effect_keys[Len(c.status_effect_keys) + 1 - j].key)] ]

(* mutant: a new session lets the attack slots fire at once *)
NewSessionNoEngageDelay(s, c, sej) ==
    [ s  |-> [s EXCEPT
                !.session_at = s.now,
                !.se_pressed_at = [i \in 1..Len(c.status_effect_keys) |-> s.now],
                !.hp_since = s.now,
                !.prev_hp_pct = s.hp_pct,
                !.next_press = [i \in 1..Len(c.attack_keys) |-> s.now],
                !.se_applied = [i \in 1..Len(c.status_effect_keys) |-> FALSE],
                !.next_se_check =
                    [i \in 1..Len(c.status_effect_keys) |-> s.now + sej[i]]],
      tx |-> PressesWhere(c.status_effect_keys, LAMBDA i : TRUE) ]

(* mutant: a new session restarts the buff timer *)
NewSessionResetsBuffs(s, c, sej) ==
    [ s  |-> [s EXCEPT
                !.session_at = s.now,
                !.se_pressed_at = [i \in 1..Len(c.status_effect_keys) |-> s.now],
                !.hp_since = s.now,
                !.prev_hp_pct = s.hp_pct,
                !.next_press = [i \in 1..Len(c.attack_keys) |-> s.now + c.engage_s],
                !.se_applied = [i \in 1..Len(c.status_effect_keys) |-> FALSE],
                !.next_se_check =
                    [i \in 1..Len(c.status_effect_keys) |-> s.now + sej[i]],
                !.next_buff_check = s.now + c.buff_interval_s],
      tx |-> PressesWhere(c.status_effect_keys, LAMBDA i : TRUE) ]

(* mutant: a new session keeps the applied flags of the previous one *)
NewSessionKeepsApplied(s, c, sej) ==
    [ s  |-> [s EXCEPT
                !.session_at = s.now,
                !.se_pressed_at = [i \in 1..Len(c.status_effect_keys) |-> s.now],
                !.hp_since = s.now,
                !.prev_hp_pct = s.hp_pct,
                !.next_press = [i \in 1..Len(c.attack_keys) |-> s.now + c.engage_s],
                !.next_se_check =
                    [i \in 1..Len(c.status_effect_keys) |-> s.now + sej[i]]],
      tx |-> PressesWhere(c.status_effect_keys, LAMBDA i : TRUE) ]

(* Lines 1516-1527: a session starts *)
NewSession(s, c, sej) ==
    [ s  |-> [s EXCEPT
                !.session_at = s.now,
                !.se_pressed_at = [i \in 1..Len(c.status_effect_keys) |-> s.now],
                !.hp_since = s.now,
                !.prev_hp_pct = s.hp_pct,
                !.next_press = [i \in 1..Len(c.attack_keys) |-> s.now + c.engage_s],
                !.se_applied = [i \in 1..Len(c.status_effect_keys) |-> FALSE],
                !.next_se_check =
                    [i \in 1..Len(c.status_effect_keys) |-> s.now + sej[i]]],
      tx |-> PressesWhere(c.status_effect_keys, LAMBDA i : TRUE) ]

(* mutant: an unchanged value refreshes the stuck clock too *)
RefreshOnNoIncrease(s) ==
    [s EXCEPT
        !.hp_since = IF s.prev_hp_pct # NONE /\ s.hp_pct <= s.prev_hp_pct THEN s.now ELSE @,
        !.prev_hp_pct = s.hp_pct]

(* Lines 1529-1531 *)
RefreshOnDecrease(s) ==
    [s EXCEPT
        !.hp_since = IF s.prev_hp_pct # NONE /\ s.hp_pct < s.prev_hp_pct THEN s.now ELSE @,
        !.prev_hp_pct = s.hp_pct]

(* mutant: the timeout must be exceeded, not reached *)
StuckLate(s, c) == s.now - s.hp_since > c.stuck_s

(* Lines 1533-1534 *)
Stuck(s, c) == s.now - s.hp_since >= c.stuck_s

(* mutant: the first stuck detection already moves *)
NeedsUnstuckAtFirst(s) == s.stuck_count >= 1

(* Line 1536 *)
NeedsUnstuck(s) == s.stuck_count >= 2

(* mutant: the re-target keeps the session *)
RetargetKeepsSession(s, c, delay, t) ==
    [ s  |-> [s EXCEPT !.hp_since = s.now, !.prev_hp_pct = NONE,
                       !.pc = "tgt_sleep", !.wake = t + delay],
      tx |-> << Press(c.target_key) >> ]

(* mutant: the re-target keeps the last observed value *)
RetargetKeepsObserved(s, c, delay, t) ==
    [ s  |-> [s EXCEPT !.session_at = NONE, !.se_pressed_at = [i \in DOMAIN @ |-> NONE],
                       !.hp_since = NONE,
                       !.pc = "tgt_sleep", !.wake = t + delay],
      tx |-> << Press(c.target_key) >> ]

(* Lines 1544-1548: press the targeting key, end the session, sleep *)
Retarget(s, c, delay, t) ==
    [ s  |-> [s EXCEPT !.session_at = NONE, !.se_pressed_at = [i \in DOMAIN @ |-> NONE],
                       !.hp_since = NONE, !.prev_hp_pct = NONE,
                       !.pc = "tgt_sleep", !.wake = t + delay],
      tx |-> << Press(c.target_key) >> ]

(* Lines 1560-1563 *)
AttackDue(s, i) == s.now >= s.next_press[i]

(* mutant: a fired slot keeps its old nextFireAt *)
FireAttacksStale(s, c, aj) ==
    [ s  |-> s,
      tx |-> PressesWhere(c.attack_keys, LAMBDA i : AttackDue(s, i)) ]

FireAttacks(s, c, aj) ==
    [ s  |-> [s EXCEPT !.next_press =
                [i \in 1..Len(c.attack_keys) |->
                    IF AttackDue(s, i) THEN s.now + aj[i] ELSE s.next_press[i]]],
      tx |-> PressesWhere(c.attack_keys, LAMBDA i : AttackDue(s, i)) ]

(* mutant: an applied slot is checked again *)
SeDueThoughApplied(s, i) == s.now >= s.next_se_check[i]

(* mutant: a slot is checked in every cycle until it is applied *)
SeDueEveryCycle(s, i) == ~s.se_applied[i]

(* Lines 1565-1582 *)
SeDue(s, i) == ~s.se_applied[i] /\ s.now >= s.next_se_check[i]

(* mutant: a slot that did not match is pressed but not rescheduled *)
CheckEffectsNoReschedule(s, c, sem, sej) ==
    [ s  |-> [s EXCEPT
                !.se_applied =
                    [i \in 1..Len(c.status_effect_keys) |->
                        IF SeDue(s, i) /\ sem[i] = "hit" THEN TRUE ELSE s.se_applied[i]]],
      tx |-> PressesWhere(c.status_effect_keys,
                          LAMBDA i : SeDue(s, i) /\ sem[i] = "miss") ]

CheckEffects(s, c, sem, sej) ==
    [ s  |-> [s EXCEPT
                !.se_pressed_at =
                    [i \in 1..Len(c.status_effect_keys) |->
                        IF SeDue(s, i) /\ sem[i] = "miss" THEN s.now ELSE s.se_pressed_at[i]],
                !.se_applied =
                    [i \in 1..Len(c.status_effect_keys) |->
                        IF SeDue(s, i) /\ sem[i] = "hit" THEN TRUE ELSE s.se_applied[i]],
                !.next_se_check =
                    [i \in 1..Len(c.status_effect_keys) |->
                        IF SeDue(s, i) /\ sem[i] = "miss" THEN s.now + sej[i]
                        ELSE IF SeDue(s, i) /\ sem[i] = "exc" THEN s.now + SE_EXC_RETRY
                        ELSE s.next_se_check[i]]],
      tx |-> PressesWhere(c.status_effect_keys,
                          LAMBDA i : SeDue(s, i) /\ sem[i] = "miss") ]

(* Lines 1584-1595 *)
BuffDue(s, c) == c.buff_keys # << >> /\ s.now >= s.next_buff_check

(* mutant: a buff is pressed when its template matches *)
CheckBuffsOnMatch(s, c, bm) ==
    IF BuffDue(s, c)
      THEN [ s  |-> [s EXCEPT !.next_buff_check = s.now + c.buff_interval_s],
             tx |-> PressesWhere(c.buff_keys, LAMBDA i : bm[i] = "hit") ]
      ELSE [ s |-> s, tx |-> << >> ]

(* Lines 1584-1595 *)
CheckBuffs(s, c, bm) ==
    IF BuffDue(s, c)
      THEN [ s  |-> [s EXCEPT !.next_buff_check = s.now + c.buff_interval_s],
             tx |-> PressesWhere(c.buff_keys, LAMBDA i : bm[i] = "miss") ]
      ELSE [ s |-> s, tx |-> << >> ]

----------------------------------------------------------------------------
(* The absent branch *)

(* Line 1599 *)
DeathDue(s, c) == s.prev_hp_visible /\ c.death_key # ""

(* mutant: the timeout must be exceeded, not reached *)
NoTargetExpiredLate(s, c) ==
    /\ s.no_target_since # NONE
    /\ c.no_target_timeout_s > 0
    /\ s.now - s.no_target_since > c.no_target_timeout_s

(* mutant: a timeout of 0 counts as a timeout *)
NoTargetExpiredAtZero(s, c) ==
    /\ s.no_target_since # NONE
    /\ s.now - s.no_target_since >= c.no_target_timeout_s

(* Line 1606 *)
NoTargetExpired(s, c) ==
    /\ s.no_target_since # NONE
    /\ c.no_target_timeout_s > 0
    /\ s.now - s.no_target_since >= c.no_target_timeout_s

(* mutant: the targeting branch keeps the last good value *)
TargetingKeepsLastGood(s, c, delay, t) ==
    [ s  |-> [s EXCEPT !.session_at = NONE, !.se_pressed_at = [i \in DOMAIN @ |-> NONE],
                       !.hp_since = NONE, !.prev_hp_pct = NONE, !.stuck_count = 0,
                       !.pc = "tgt_sleep", !.wake = t + delay],
      tx |-> << Press(c.target_key) >> ]

(* mutant: the targeting branch also fires the attack keys *)
TargetingWithAttacks(s, c, delay, t) ==
    [ s  |-> [s EXCEPT !.session_at = NONE, !.se_pressed_at = [i \in DOMAIN @ |-> NONE],
                       !.hp_since = NONE, !.prev_hp_pct = NONE, !.stuck_count = 0,
                       !.last_good_hp = NONE,
                       !.pc = "tgt_sleep", !.wake = t + delay],
      tx |-> << Press(c.target_key) >> \o PressesWhere(c.attack_keys, LAMBDA i : TRUE) ]

(* Lines 1611-1618 *)
Targeting(s, c, delay, t) ==
    [ s  |-> [s EXCEPT !.session_at = NONE, !.se_pressed_at = [i \in DOMAIN @ |-> NONE],
                       !.hp_since = NONE, !.prev_hp_pct = NONE, !.stuck_count = 0,
                       !.last_good_hp = NONE,
                       !.pc = "tgt_sleep", !.wake = t + delay],
      tx |-> << Press(c.target_key) >> ]

----------------------------------------------------------------------------
(* Worker steps *)

Live(v) == wk[v].pc \notin {"idle", "exit"}

(* The worker whose sleep ends first runs next.  The run is followed up to MaxTime,
   and a worker whose flag was cleared until it has left the loop. *)
Due(w) ==
    /\ wk[w].wake <= MaxTime \/ (~monitoring /\ wk[w].wake < INF)
    /\ \A v \in Workers : Live(v) => wk[w].wake <= wk[v].wake

TgtDelays == cfg.tgt_min .. cfg.tgt_max

Commit(w, s, tx, op, t, aq, h) ==
    /\ \E written \in [1..Len(tx) -> env.writes] :
         LET sent == SerialSend(serial_port, Delivered(tx, written))
             lost == Len(tx) - Len(sent)
         IN /\ wk' = [wk EXCEPT ![w] = SendResult(s, lost)]
            /\ out' = [by |-> w, op |-> op, cmds |-> sent, lost |-> lost]
    /\ clock' = t
    /\ afterq' = aq
    /\ hist' = h
    /\ UNCHANGED <<dev, chan, cfg, env, monitoring, running, serial_port, monitor_start_btn,
                   monitor_stop_btn, closed, recording>>

(* Lines 1604-1618, entered with the now of line 1512 *)
NoTarget(w, s, pre, op, t, h) ==
    IF NoTargetExpired(s, cfg)
      THEN Commit(w, [s EXCEPT !.pc = "exit"], pre, "safety_stop", t, afterq + 1, h)
      ELSE \E d \in TgtDelays :
             LET s1 == [s EXCEPT !.no_target_since = IF @ = NONE THEN s.now ELSE @]
                 r == Targeting(s1, cfg, d, t)
             IN Commit(w, r.s, pre \o r.tx, op, t, afterq, h)

Absent(w, s, t, h) ==
    IF DeathDue(s, cfg)
      THEN Commit(w, [s EXCEPT !.pc = "death_sleep", !.wake = t + cfg.death_delay],
                  << Press(cfg.death_key) >>, "death", t, afterq, h)
      ELSE NoTarget(w, s, << >>, "targeting", t, h)

Engaged(w, s, pre, t, h) ==
    \E aj  \in PickPer(Len(cfg.attack_keys), LAMBDA i : AttackDue(s, i),
                       LAMBDA i : cfg.attack_keys[i].a_min .. cfg.attack_keys[i].a_max, 0),
       sem \in PickPer(Len(cfg.status_effect_keys), LAMBDA i : SeDue(s, i),
                       LAMBDA i : env.matches, "skip"),
       bm  \in PickPer(Len(cfg.buff_keys), LAMBDA i : BuffDue(s, cfg),
                       LAMBDA i : env.matches, "skip") :
      \E sej \in PickPer(Len(cfg.status_effect_keys),
                         LAMBDA i : SeDue(s, i) /\ sem[i] = "miss",
                         LAMBDA i : cfg.status_effect_keys[i].retry_min ..
                                    cfg.status_effect_keys[i].retry_max, 0) :
        LET a == FireAttacks(s, cfg, aj)
            e == CheckEffects(a.s, cfg, sem, sej)
            b == CheckBuffs(e.s, cfg, bm)
        IN Commit(w, [b.s EXCEPT !.pc = "poll_sleep", !.wake = t + POLL_INTERVAL],
                  pre \o a.tx \o e.tx \o b.tx, "attacking", t, afterq, h)

Visible(w, s, t, h) ==
    \E sej \in PickPer(Len(cfg.status_effect_keys), LAMBDA i : s.hp_since = NONE,
                       LAMBDA i : cfg.status_effect_keys[i].retry_min ..
                                  cfg.status_effect_keys[i].retry_max, 0) :
      LET s1 == [s EXCEPT !.no_target_since = NONE]
          n  == IF s1.hp_since = NONE THEN NewSession(s1, cfg, sej)
                                      ELSE [s |-> s1, tx |-> << >>]
          s2 == RefreshOnDecrease(n.s)
      IN IF Stuck(s2, cfg)
           THEN LET s3 == [s2 EXCEPT !.stuck_count = @ + 1]
                IN IF NeedsUnstuck(s3)
                     THEN Commit(w, [s3 EXCEPT !.pc = "hold1_sleep",
                                               !.wake = t + cfg.unstuck_dur1],
                                 n.tx \o << Hold(cfg.unstuck_key1, cfg.unstuck_dur1) >>,
                                 "unstuck", t, afterq, h)
                     ELSE \E d \in TgtDelays :
                            LET r == Retarget(s3, cfg, d, t)
                            IN Commit(w, r.s, n.tx \o r.tx, "stuck", t, afterq, h)
           ELSE Engaged(w, s2, n.tx, t, h)

(* mutant: the presence of the cycle is stored only while a session is active *)
EndOfIterationSessionOnly(s) ==
    IF s.pc \in {"poll_sleep", "tgt_sleep"}
      THEN [s EXCEPT !.prev_hp_visible = s.hp_visible /\ s.hp_since # NONE]
      ELSE s

(* mutant: the presence of the cycle is not stored after a targeting delay *)
EndOfIterationPollOnly(s) ==
    IF s.pc = "poll_sleep"
      THEN [s EXCEPT !.prev_hp_visible = s.hp_visible]
      ELSE s

(* Line 1620, reached after the sleeps that end a cycle (not after `continue`) *)
EndOfIteration(s) ==
    IF s.pc \in {"poll_sleep", "tgt_sleep"}
      THEN [s EXCEPT !.prev_hp_visible = s.hp_visible]
      ELSE s

(* mutant: a perception exception is counted as a reading that breaks the streaks *)
PerceptionErrorResets(s, t) ==
    [s EXCEPT !.pc = "err_sleep", !.wake = t + ERR_SLEEP,
              !.hp_gone_streak = 0, !.hp_zero_streak = 0]

(* mutant: the back-off after a perception exception never ends *)
PerceptionErrorSleepsForever(s, t) == [s EXCEPT !.pc = "err_sleep", !.wake = INF]

(* Lines 1473-1475: sleep, then `continue` *)
PerceptionError(s, t) == [s EXCEPT !.pc = "err_sleep", !.wake = t + ERR_SLEEP]

LogEntry(s) ==
    [ raw |-> s.raw_hp, hp |-> s.hp_pct,
      gone |-> GoneConfirmed(s, cfg), zero |-> ZeroConfirmed(s, cfg) ]

(* One pass of `while self.monitoring:` up to its first sleep *)
Iterate(w) ==
    /\ ~closed
    /\ wk[w].pc \in {"start", "err_sleep", "poll_sleep", "tgt_sleep"}
    /\ Due(w)
    /\ LET t  == wk[w].wake
           s0 == EndOfIteration(wk[w])
       IN IF ~monitoring
            THEN Commit(w, [s0 EXCEPT !.pc = "exit"], << >>, "exit", t, afterq, hist)
            ELSE /\ recording => Len(hist) < MaxHist
                 /\ \E raw \in env.readings :
                      IF raw = ERR
                        THEN Commit(w, PerceptionError(s0, t),
                                    << >>, "perception_error", t, afterq, hist)
                        ELSE LET s1 == Verify(s0, raw, cfg, t)
                                 h  == IF recording THEN Append(hist, LogEntry(s1))
                                                    ELSE hist
                             IN IF s1.hp_visible THEN Visible(w, s1, t, h)
                                                 ELSE Absent(w, s1, t, h)

(* Lines 1540-1541: after the first hold *)
AfterHold1(w) ==
    /\ ~closed
    /\ wk[w].pc = "hold1_sleep"
    /\ Due(w)
    /\ LET t == wk[w].wake
       IN Commit(w, [wk[w] EXCEPT !.pc = "hold2_sleep", !.wake = t + cfg.unstuck_dur2],
                 << Hold(cfg.unstuck_key2, cfg.unstuck_dur2) >>, "hold2", t, afterq, hist)

(* Lines 1544-1548: after the second hold *)
AfterHold2(w) ==
    /\ ~closed
    /\ wk[w].pc = "hold2_sleep"
    /\ Due(w)
    /\ \E d \in TgtDelays :
         LET t == wk[w].wake
             r == Retarget(wk[w], cfg, d, t)
         IN Commit(w, r.s, r.tx, "retarget", t, afterq, hist)

(* Lines 1604-1618: after the post-death delay *)
AfterDeath(w) ==
    /\ ~closed
    /\ wk[w].pc = "death_sleep"
    /\ Due(w)
    /\ NoTarget(w, wk[w], << >>, "post_death", wk[w].wake, hist)

----------------------------------------------------------------------------
(* UI thread *)

Ui(op, tx) == [by |-> 0, op |-> op, cmds |-> tx, lost |-> 0]

(* _start_monitoring, with the worker thread it spawns *)
StartMonitoring(w) ==
    /\ ~closed
    /\ monitor_start_btn = "normal"
    /\ wk[w].pc = "idle"
    /\ \A v \in Workers : v < w => wk[v].pc # "idle"
    /\ \E opened \in BOOLEAN :
         IF ValidConfig(cfg) /\ (serial_port = "open" \/ opened)
           THEN /\ serial_port' = "open"
                /\ monitoring' = TRUE
                /\ monitor_start_btn' = "disabled"
                /\ monitor_stop_btn' = "normal"
                /\ cfg' = ThreadArgs(cfg)
                /\ wk' = [wk EXCEPT ![w] = InitLocals(ThreadArgs(cfg), clock)]
           ELSE UNCHANGED <<cfg, serial_port, monitoring, monitor_start_btn,
                            monitor_stop_btn, wk>>
    /\ out' = Ui("start_monitoring", << >>)
    /\ UNCHANGED <<dev, chan, env, running, closed, afterq, clock, recording, hist>>

(* The body of _stop_monitoring *)
StopBody(op) ==
    /\ monitoring' = FALSE
    /\ out' = Ui(op, SerialSend(serial_port, << StopCmd >>))
    /\ monitor_start_btn' = "normal"
    /\ monitor_stop_btn' = "disabled"

(* The Stop Monitoring button *)
StopMonitoring ==
    /\ ~closed
    /\ monitor_stop_btn = "normal"
    /\ StopBody("stop_monitoring")
    /\ UNCHANGED <<dev, chan, cfg, env, running, serial_port, closed, afterq, clock, wk, recording, hist>>

(* root.after(0, self._stop_monitoring), queued by the worker, runs *)
AfterStopMonitoring ==
    /\ ~closed
    /\ afterq > 0
    /\ StopBody("after_stop_monitoring")
    /\ afterq' = afterq - 1
    /\ UNCHANGED <<dev, chan, cfg, env, running, serial_port, closed, clock, wk, recording, hist>>

(* _do_start_from_f12: F12 while the tab 1 autoclicker is not running *)
DoStartFromF12 ==
    /\ ~closed
    /\ ~running
    /\ \E opened \in BOOLEAN :
         IF serial_port = "open" \/ opened
           THEN /\ serial_port' = "open"
                /\ running' = TRUE
                /\ out' = Ui("start", << StartCmd >>)
           ELSE /\ UNCHANGED <<serial_port, running>>
                /\ out' = Ui("start", << >>)
    /\ UNCHANGED <<dev, chan, cfg, env, monitoring, monitor_start_btn, monitor_stop_btn, closed, afterq,
                   clock, wk, recording, hist>>

(* _on_stop: F12 or Stop while the tab 1 autoclicker is running *)
OnStop ==
    /\ ~closed
    /\ running
    /\ out' = Ui("stop", SerialSend(serial_port, << StopCmd >>))
    /\ running' = FALSE
    /\ UNCHANGED <<dev, chan, cfg, env, monitoring, serial_port, monitor_start_btn, monitor_stop_btn,
                   closed, afterq, clock, wk, recording, hist>>

(* _on_close *)
OnClose ==
    /\ ~closed
    /\ monitoring' = FALSE
    /\ out' = Ui("close", IF running THEN SerialSend(serial_port, << StopCmd >>)
                                     ELSE << >>)
    /\ running' = FALSE
    /\ serial_port' = "none"
    /\ closed' = TRUE
    /\ UNCHANGED <<dev, chan, cfg, env, monitor_start_btn, monitor_stop_btn, afterq, clock, wk,
                   recording, hist>>

----------------------------------------------------------------------------
(* Specifications *)

InitWith(configs, e, rec) ==
    /\ cfg \in configs
    /\ env = e
    /\ monitoring = FALSE
    /\ running = FALSE
    /\ serial_port = "none"
    /\ monitor_start_btn = "normal"
    /\ monitor_stop_btn = "disabled"
    /\ closed = FALSE
    /\ afterq = 0
    /\ clock = 0
    /\ wk = [w \in Workers |-> IdleLocals]
    /\ out = Ui("init", << >>)
    /\ recording = rec
    /\ hist = << >>
    /\ chan = [lock |-> NONE, at |-> [th \in Threads |-> "idle"]]
    /\ dev = DevBoot

Init == InitWith(Configs, FullEnv, FALSE)

WorkerStep(w) == Iterate(w) \/ AfterHold1(w) \/ AfterHold2(w) \/ AfterDeath(w)

(* One monitoring run: the configuration is started once *)
Next ==
    \/ StartMonitoring(1)
    \/ StopMonitoring
    \/ AfterStopMonitoring
    \/ OnClose
    \/ Iterate(1)
    \/ AfterHold1(1)
    \/ AfterHold2(1)
    \/ AfterDeath(1)

Spec == Init /\ [][Next]_vars

(* The same run with a scheduler that lets a thread run once its sleep has ended *)
SpecFair == Spec /\ WF_vars(WorkerStep(1))

(* The same run with every verified cycle logged *)
InitVerifier == InitWith(VerifierConfigs, FullEnv, TRUE)

NextVerifier ==
    \/ StartMonitoring(1)
    \/ StopMonitoring
    \/ AfterStopMonitoring
    \/ OnClose
    \/ Iterate(1)
    \/ AfterDeath(1)

SpecVerifier == InitVerifier /\ [][NextVerifier]_vars

(* The same run with two per-target effects and one buff configured *)
EffectEnv == [readings |-> {NONE, 1, 2}, matches |-> Outcomes, writes |-> {TRUE}]

InitEffects == InitWith(EffectConfigs, EffectEnv, FALSE)

SpecEffects == InitEffects /\ [][Next]_vars

(* The application: monitoring may be started again, tab 1 may run *)
AppEnv == [readings |-> {NONE}, matches |-> Outcomes, writes |-> {TRUE}]

InitApp == InitWith({[BaseConfig EXCEPT !.death_key = ""]}, AppEnv, FALSE)

NextApp ==
    \/ \E w \in Workers : StartMonitoring(w)
    \/ StopMonitoring
    \/ AfterStopMonitoring
    \/ DoStartFromF12
    \/ OnStop
    \/ OnClose
    \/ \E w \in Workers : Iterate(w)

SpecApp == InitApp /\ [][NextApp]_vars

(* The same run with two attack slots, without and with an engage delay *)
AttackConfigs ==
    { [BaseConfig EXCEPT
         !.engage_s = e,
         !.attack_keys = << [key |-> "a1", a_min |-> 1, a_max |-> 2],
                            [key |-> "a2", a_min |-> 2, a_max |-> 2] >>] : e \in {0, 2} }

InitAttack == InitWith(AttackConfigs, FullEnv, FALSE)

SpecAttack == InitAttack /\ [][Next]_vars

(* A form with one buff row *)
BuffConfig == [BaseConfig EXCEPT !.buff_keys = << [key |-> "b1", tpl |-> TRUE] >>]

(* The same run on a device whose writes can fail *)
TransportEnv == [readings |-> {NONE, 1, 2}, matches |-> {"miss"}, writes |-> BOOLEAN]

InitTransport == InitWith({BuffConfig}, TransportEnv, FALSE)

SpecTransport == InitTransport /\ [][Next]_vars

(* The same run with two buff rows, on a screen where the buff templates always
   match, never match, or do either or raise *)
BuffConfigs ==
    { [BaseConfig EXCEPT !.buff_keys = << [key |-> "b1", tpl |-> TRUE],
                                          [key |-> "b2", tpl |-> TRUE] >>] }

BuffEnvs ==
    { [readings |-> {NONE, 1, 2}, matches |-> m, writes |-> {TRUE}] :
        m \in {{"hit"}, {"miss"}, Outcomes} }

InitBuffs == \E e \in BuffEnvs : InitWith(BuffConfigs, e, FALSE)

SpecBuffs == InitBuffs /\ [][Next]_vars

(* Start Monitoring pressed on forms that are valid or have one invalid value *)
StartConfigs ==
    { BuffConfig,
      [BuffConfig EXCEPT !.stuck_s = 0],
      [BuffConfig EXCEPT !.tgt_max = 0],
      [BuffConfig EXCEPT !.no_target_timeout_s = -1],
      [BuffConfig EXCEPT !.attack_keys = << >>],
      [BuffConfig EXCEPT !.attack_keys = << [key |-> "a1", a_min |-> 0, a_max |-> 2] >>],
      [BuffConfig EXCEPT !.buff_keys = << [key |-> "b1", tpl |-> FALSE] >>],
      [BuffConfig EXCEPT !.buff_interval_s = 0] }

StartEnv == [readings |-> {NONE, 1, 2}, matches |-> {"miss"}, writes |-> {TRUE}]

InitStart == InitWith(StartConfigs, StartEnv, FALSE)

SpecStart == InitStart /\ [][Next]_vars

----------------------------------------------------------------------------
(* The serial functions statement by statement: every thread may call _serial_send,
   the Tk main thread also _open_serial and _close_serial *)

(* mutant: `with self._lock` does not wait *)
LockFreeAlways == TRUE

(* threading.Lock: acquire blocks while another thread holds the lock *)
LockFree == chan.lock = NONE

ChanStep(th, from, to, lock, port) ==
    /\ chan.at[th] = from
    /\ chan' = [lock |-> lock, at |-> [chan.at EXCEPT ![th] = to]]
    /\ serial_port' = port
    /\ UNCHANGED <<dev, cfg, env, monitoring, running, monitor_start_btn, monitor_stop_btn,
                   closed, afterq, clock, wk, out, recording, hist>>

(* A thread calls one of the functions and reaches its first `with self._lock:` *)
Call(th) ==
    \E f \in IF th = 0 THEN {"send_wait", "open_wait1", "close_wait"} ELSE {"send_wait"} :
      ChanStep(th, "idle", f, chan.lock, serial_port)

(* `with self._lock:` is entered *)
Acquire(th) ==
    /\ LockFree
    /\ \E l \in {<<"send_wait", "send_check">>, <<"open_wait1", "open_sec1">>,
                  <<"open_wait2", "open_sec2">>, <<"close_wait", "close_sec">>} :
         ChanStep(th, l[1], l[2], th, serial_port)

(* _serial_send, lines 670-671 *)
SendCheck(th) ==
    IF serial_port = "open"
      THEN ChanStep(th, "send_check", "send_write", chan.lock, serial_port)
      ELSE ChanStep(th, "send_check", "idle", NONE, serial_port)

(* Line 673: write() returns, or raises and the function returns False *)
SendWrite(th) ==
    \/ ChanStep(th, "send_write", "send_flush", chan.lock, serial_port)
    \/ ChanStep(th, "send_write", "idle", NONE, serial_port)

(* Lines 674-677 *)
SendFlush(th) == ChanStep(th, "send_flush", "idle", NONE, serial_port)

(* _open_serial, lines 680-683 *)
OpenSec1(th) ==
    IF serial_port = "open"
      THEN ChanStep(th, "open_sec1", "idle", NONE, serial_port)
      ELSE ChanStep(th, "open_sec1", "open_dev", NONE, "none")

(* Lines 684-687: a port is selected, or the function returns False *)
OpenDev(th) ==
    \/ ChanStep(th, "open_dev", "open_wait2", chan.lock, serial_port)
    \/ ChanStep(th, "open_dev", "idle", chan.lock, serial_port)

(* Lines 689-712: Serial() opens the port, or raises *)
OpenSec2(th) ==
    \/ ChanStep(th, "open_sec2", "idle", NONE, "open")
    \/ ChanStep(th, "open_sec2", "idle", NONE, serial_port)

(* _close_serial *)
CloseSec(th) == ChanStep(th, "close_sec", "idle", NONE, "none")

InitChannel == InitWith({BaseConfig}, FullEnv, FALSE)

NextChannel ==
    \E th \in Threads :
      \/ Call(th)
      \/ Acquire(th)
      \/ SendCheck(th)
      \/ SendWrite(th)
      \/ SendFlush(th)
      \/ OpenSec1(th)
      \/ OpenDev(th)
      \/ OpenSec2(th)
      \/ CloseSec(th)

SpecChannel == InitChannel /\ [][NextChannel]_vars

----------------------------------------------------------------------------
(* Helpers of the properties *)

Range(f) == { f[i] : i \in DOMAIN f }

(* The step just taken was a step of worker w *)
WorkerActed(w) == wk'[w] # wk[w] /\ out'.by = w

(* Number of log entries ending at n that carry the same raw reading as entry n *)
RECURSIVE RunLength(_)
RunLength(n) ==
    IF n > 1 /\ hist[n - 1].raw = hist[n].raw THEN 1 + RunLength(n - 1) ELSE 1

(* The last reading > 0 logged before entry n and after the last absent cycle before n
   (the targeting branch of an absent cycle forgets the last good value) *)
RECURSIVE LastGoodBefore(_)
LastGoodBefore(n) ==
    IF n <= 1 THEN NONE
    ELSE IF hist[n - 1].hp = NONE THEN NONE
    ELSE IF hist[n - 1].raw > 0 THEN hist[n - 1].raw
    ELSE LastGoodBefore(n - 1)

----------------------------------------------------------------------------
(* C1: the verifier reports gone_confirmed (zero_confirmed) in a cycle only if the
   last hp_confirm_count readings, perception errors aside, were all None (all 0). *)
C1_NoEarlyConfirmation ==
    \A n \in 1..Len(hist) :
      /\ hist[n].gone =>
           /\ n >= cfg.hp_confirm_count
           /\ \A k \in (n - cfg.hp_confirm_count + 1)..n : hist[k].raw = NONE
      /\ hist[n].zero =>
           /\ n >= cfg.hp_confirm_count
           /\ \A k \in (n - cfg.hp_confirm_count + 1)..n : hist[k].raw = 0

C1_Witness ==
    /\ cfg.hp_confirm_count = 3
    /\ Len(hist) = 4
    /\ hist[4].gone
    /\ hist[1].raw > 0

(* C2: the verified value is the last good value while a None or 0 reading is not yet
   confirmed and a last good value exists, and the raw reading in every other case;
   readings 2, None, None, 1 with hp_confirm_count = 3 give 2, 2, 2, 1. *)
C2_Expected(n) ==
    IF /\ hist[n].raw \in {NONE, 0}
       /\ RunLength(n) < cfg.hp_confirm_count
       /\ LastGoodBefore(n) # NONE
      THEN LastGoodBefore(n)
      ELSE hist[n].raw

C2_VerifiedValue ==
    /\ \A n \in 1..Len(hist) : hist[n].hp = C2_Expected(n)
    /\ ( /\ cfg.hp_confirm_count = 3
         /\ Len(hist) = 4
         /\ [n \in 1..4 |-> hist[n].raw] = << 2, NONE, NONE, 1 >> )
       => [n \in 1..4 |-> hist[n].hp] = << 2, 2, 2, 1 >>

C2_Witness ==
    /\ cfg.hp_confirm_count = 3
    /\ Len(hist) = 4
    /\ [n \in 1..4 |-> hist[n].raw] = << 2, NONE, NONE, 1 >>
    /\ [n \in 1..4 |-> hist[n].hp] = << 2, 2, 2, 1 >>

(* The worker is inside `while self.monitoring:` (asleep between two steps) *)
InLoop(w) ==
    wk[w].pc \in {"err_sleep", "poll_sleep", "tgt_sleep",
                  "hold1_sleep", "hold2_sleep", "death_sleep"}

(* The step just taken entered the loop body and read a health value *)
IterVerified(w) ==
    /\ WorkerActed(w)
    /\ wk[w].pc \in {"start", "err_sleep", "poll_sleep", "tgt_sleep"}
    /\ monitoring
    /\ wk'[w].pc # "err_sleep"

SentByWorker(w, kinds) ==
    WorkerActed(w) /\ \E m \in Range(out'.cmds) : m.c \in kinds

(* The step just taken ran the no-target decision of an absent cycle *)
NoTargetDecision ==
    \/ IterVerified(1) /\ ~wk'[1].hp_visible /\ wk'[1].pc # "death_sleep"
    \/ WorkerActed(1) /\ wk[1].pc = "death_sleep"

(* C3: at any time at most one worker is inside the poll loop, also when monitoring
   is stopped and started again while the previous worker sleeps. *)
C3_AtMostOneWorker ==
    \A v, w \in Workers : (InLoop(v) /\ InLoop(w)) => v = w

(* C4: once _stop_monitoring has cleared the flag and sent STOP, the worker sends no
   further PRESS or HOLD. *)
C4_StopIsFinal ==
    [][ (~monitoring /\ ~closed /\ wk[1].pc # "idle")
           => ~SentByWorker(1, {"PRESS", "HOLD"}) ]_vars

(* C5: every step that ends the monitoring run (clears self.monitoring) writes STOP
   to the device. *)
C5_EveryEndSendsStop ==
    [][ (monitoring /\ ~monitoring') => StopCmd \in Range(out'.cmds) ]_vars

(* C6: a per-target effect slot that is applied, and stays applied over a worker
   step, is not pressed by that step. *)
C6_AppliedNotPressed ==
    [][ \A i \in DOMAIN wk[1].se_applied :
          ( /\ WorkerActed(1)
            /\ wk[1].se_applied[i]
            /\ i \in DOMAIN wk'[1].se_applied
            /\ wk'[1].se_applied[i] )
          => Press(cfg.status_effect_keys[i].key) \notin Range(out'.cmds) ]_vars

C6_Witness ==
    /\ out.by = 1
    /\ wk[1].pc = "poll_sleep"
    /\ wk[1].se_applied = << TRUE, FALSE >>
    /\ wk[1].now > wk[1].next_se_check[1]
    /\ out.cmds = << Press("e2") >>

(* A cycle with a present verified value that is not below the last observed one *)
NoDecreaseCycle ==
    /\ IterVerified(1)
    /\ wk'[1].hp_visible
    /\ wk[1].prev_hp_pct # NONE
    /\ wk'[1].hp_pct >= wk[1].prev_hp_pct

(* C7, as stated: such a cycle leaves hp_since (lastDecreaseAt) unchanged. *)
C7_Unchanged ==
    [][ NoDecreaseCycle => wk'[1].hp_since = wk[1].hp_since ]_vars

(* C7, amended: such a cycle never refreshes hp_since: it leaves it unchanged, or
   clears it when the cycle detects stuck and ends the session. *)
C7_NotRefreshed ==
    [][ ( \/ NoDecreaseCycle
          \/ (WorkerActed(1) /\ wk[1].pc \in {"hold1_sleep", "hold2_sleep"}) )
        => \/ wk'[1].hp_since = wk[1].hp_since
           \/ /\ wk'[1].hp_since = NONE
              /\ \/ wk'[1].stuck_count = wk[1].stuck_count + 1
                 \/ wk[1].pc = "hold2_sleep" ]_vars

C7_Witness ==
    /\ out.by = 1
    /\ wk[1].pc = "poll_sleep"
    /\ wk[1].hp_pct = MaxHp
    /\ wk[1].hp_since # NONE
    /\ wk[1].hp_since < wk[1].now

(* C8: a stuck detection that is the first since the last absent cycle only presses
   the targeting key; the second and later ones hold unstuck key 1, then unstuck
   key 2, and then press the targeting key.  No HOLD is sent otherwise. *)
C8_TwoStrikes ==
    [][ WorkerActed(1) =>
          /\ (wk'[1].stuck_count = wk[1].stuck_count + 1) =>
               /\ wk[1].hp_since # NONE
               /\ wk'[1].now - wk[1].hp_since >= cfg.stuck_s
               /\ IF wk'[1].stuck_count >= 2
                    THEN /\ out'.cmds = << Hold(cfg.unstuck_key1, cfg.unstuck_dur1) >>
                         /\ wk'[1].pc = "hold1_sleep"
                    ELSE /\ out'.cmds = << Press(cfg.target_key) >>
                         /\ wk'[1].pc = "tgt_sleep"
                         /\ wk'[1].hp_since = NONE
          /\ (wk[1].pc = "hold1_sleep") =>
               /\ out'.cmds = << Hold(cfg.unstuck_key2, cfg.unstuck_dur2) >>
               /\ wk'[1].pc = "hold2_sleep"
          /\ (wk[1].pc = "hold2_sleep") =>
               /\ out'.cmds = << Press(cfg.target_key) >>
               /\ wk'[1].pc = "tgt_sleep"
               /\ wk'[1].hp_since = NONE
          /\ (\E m \in Range(out'.cmds) : m.c = "HOLD") =>
               /\ wk'[1].stuck_count >= 2
               /\ wk'[1].pc \in {"hold1_sleep", "hold2_sleep"}
          /\ (wk'[1].stuck_count # wk[1].stuck_count) =>
               \/ wk'[1].stuck_count = wk[1].stuck_count + 1
               \/ wk'[1].stuck_count = 0 /\ ~wk'[1].hp_visible
          /\ (NoTargetDecision /\ wk'[1].pc = "tgt_sleep") =>
               wk'[1].stuck_count = 0 ]_vars

C8_Witness ==
    /\ out.by = 1
    /\ out.op = "retarget"
    /\ wk[1].stuck_count = 2
    /\ wk[1].pc = "tgt_sleep"
    /\ out.cmds = << Press(cfg.target_key) >>

(* C9: with a death key configured, a cycle presses it (once) exactly when its
   verified value is absent and the previous verified cycle's was present; no other
   step presses it, and nothing presses it when no death key is configured. *)
C9_DeathOncePerTransition ==
    [][ WorkerActed(1) =>
          LET transition == wk[1].hp_visible /\ ~wk'[1].hp_visible
              presses == SelectSeq(out'.cmds, LAMBDA m : m = Press("d"))
          IN IF IterVerified(1) /\ cfg.death_key = "d" /\ transition
               THEN Len(presses) = 1
               ELSE Len(presses) = 0 ]_vars

C9_Witness ==
    /\ out.by = 1
    /\ wk[1].pc = "death_sleep"
    /\ out.cmds = << Press("d") >>
    /\ wk[1].prev_hp_visible
    /\ ~wk[1].hp_visible

(* C10: with a no-target timeout T > 0, an absent cycle that finds health absent
   since at least T leaves the loop, presses no key and queues _stop_monitoring
   once; the queued call writes a single STOP.  Any other absent cycle presses the
   targeting key and stays in the loop. *)
C10_SafetyStop ==
    [][ /\ NoTargetDecision =>
             IF /\ cfg.no_target_timeout_s > 0
                /\ wk[1].no_target_since # NONE
                /\ wk'[1].now - wk[1].no_target_since >= cfg.no_target_timeout_s
               THEN /\ wk'[1].pc = "exit"
                    /\ out'.cmds = << >>
                    /\ afterq' = afterq + 1
               ELSE /\ wk'[1].pc = "tgt_sleep"
                    /\ out'.cmds = << Press(cfg.target_key) >>
                    /\ afterq' = afterq
        /\ (afterq' < afterq) =>
             /\ afterq' = afterq - 1
             /\ out'.cmds = << StopCmd >>
             /\ ~monitoring'
        /\ afterq' <= 1 ]_vars

C10_Witness ==
    /\ cfg.no_target_timeout_s > 0
    /\ wk[1].pc = "exit"
    /\ ~wk[1].hp_visible
    /\ wk[1].now - wk[1].no_target_since >= cfg.no_target_timeout_s
    /\ afterq = 0
    /\ out = Ui("after_stop_monitoring", << StopCmd >>)

(* The threads inside a `with self._lock:` block, and those inside write()/flush() *)
InCritical == { th \in Threads : chan.at[th] \in {"send_check", "send_write", "send_flush",
                                                    "open_sec1", "open_sec2", "close_sec"} }

InWrite == { th \in Threads : chan.at[th] \in {"send_write", "send_flush"} }

(* C11: at most one thread is inside the transport critical section (sending,
   opening or closing the port), so at most one write is in flight; the thread
   inside is the holder of the lock. *)
C11_MutualExclusion ==
    /\ Cardinality(InCritical) <= 1
    /\ Cardinality(InWrite) <= 1
    /\ \A th \in InCritical : chan.lock = th

C11_Witness ==
    /\ chan.at[1] = "send_flush"
    /\ chan.at[0] = "send_wait"
    /\ chan.at[2] = "send_wait"

(* The step just taken was a cycle whose capture or OCR raised *)
ErrorCycle ==
    /\ WorkerActed(1)
    /\ wk[1].pc \in {"start", "err_sleep", "poll_sleep", "tgt_sleep"}
    /\ monitoring
    /\ wk'[1].pc = "err_sleep"

(* C12: a cycle whose capture or OCR raises sends nothing, queues nothing and
   changes no local of the loop (streaks, last good value, session, slot timers);
   prev_hp_visible holds the presence of the last completed cycle, as line 1620 left
   it before the cycle began; the worker sleeps and is back at the loop top. *)
C12_ErrorIsNoInformation ==
    [][ ErrorCycle =>
          /\ out'.cmds = << >>
          /\ afterq' = afterq
          /\ wk'[1] = [wk[1] EXCEPT
                         !.pc = "err_sleep",
                         !.wake = clock' + ERR_SLEEP,
                         !.prev_hp_visible =
                             IF wk[1].pc \in {"poll_sleep", "tgt_sleep"}
                               THEN wk[1].hp_visible ELSE @] ]_vars

C12_Witness ==
    /\ out.by = 1
    /\ wk[1].pc = "err_sleep"
    /\ wk[1].hp_gone_streak = 1
    /\ wk[1].hp_since # NONE
    /\ wk[1].last_good_hp # NONE
    /\ wk[1].next_press[1] > wk[1].now

(* The form is free of the errors the specification names: a missing template or an
   invalid numeric range, the buff check interval included *)
FormValid == ValidConfig(cfg) /\ cfg.buff_interval_s > 0

(* C13: Start Monitoring on a form with a missing template or an invalid numeric
   range (the buff check interval included) leaves monitoring false, does not open
   the port and spawns no worker. *)
C13_InvalidConfigRejected ==
    [][ (out'.op = "start_monitoring" /\ ~FormValid)
          => UNCHANGED <<monitoring, serial_port, wk>> ]_vars

(* The step just taken was a cycle that created a session *)
SessionCreated ==
    /\ IterVerified(1)
    /\ wk'[1].hp_visible
    /\ wk[1].hp_since = NONE

EffectSlots == 1..Len(cfg.status_effect_keys)

(* C14: the cycle that creates a session clears every applied flag, and no other
   step of the worker clears one. *)
C14_ResetOncePerSession ==
    [][ WorkerActed(1) =>
          /\ SessionCreated => \A i \in EffectSlots : ~wk'[1].se_applied[i]
          /\ (\E i \in EffectSlots : wk[1].se_applied[i] /\ ~wk'[1].se_applied[i])
                => SessionCreated ]_vars

C14_Witness ==
    /\ out.by = 1
    /\ wk[1].hp_since = wk[1].now
    /\ wk[1].last_good_hp = 1
    /\ wk[1].se_applied = << FALSE, FALSE >>
    /\ wk[1].stuck_count = 1
    /\ out.cmds = << Press("e1"), Press("e2") >>

AttackSlots == 1..Len(cfg.attack_keys)

Fired(i) == Press(cfg.attack_keys[i].key) \in Range(out'.cmds)

(* C15: a cycle that fires an attack slot sends its key once and reschedules the slot
   to between now + min and now + max; within a session the slot's nextFireAt changes
   only when it fires, and it fires only when now has reached it. *)
C15_NextFireNeverStale ==
    [][ WorkerActed(1) =>
          \A i \in AttackSlots :
            /\ Fired(i) =>
                 /\ Len(SelectSeq(out'.cmds,
                                  LAMBDA m : m = Press(cfg.attack_keys[i].key))) = 1
                 /\ wk'[1].next_press[i] >= wk'[1].now + cfg.attack_keys[i].a_min
                 /\ wk'[1].next_press[i] <= wk'[1].now + cfg.attack_keys[i].a_max
                 /\ ~SessionCreated => wk'[1].now >= wk[1].next_press[i]
            /\ (~Fired(i) /\ ~SessionCreated) =>
                 wk'[1].next_press[i] = wk[1].next_press[i] ]_vars

C15_Witness ==
    /\ out.by = 1
    /\ wk[1].pc = "poll_sleep"
    /\ wk[1].session_at < wk[1].now
    /\ out.cmds = << Press("a1") >>
    /\ wk[1].next_press = << wk[1].now + 2, wk[1].now + 1 >>

(* C18: a worker step that sends an attack key is a cycle with health present and a
   session that was created at least engage_s before the cycle's now. *)
C18_AttackAfterEngageDelay ==
    [][ (WorkerActed(1) /\ \E i \in AttackSlots : Fired(i)) =>
          /\ IterVerified(1)
          /\ wk'[1].hp_visible
          /\ wk'[1].session_at # NONE
          /\ wk'[1].now >= wk'[1].session_at + cfg.engage_s ]_vars

C18_Witness ==
    /\ cfg.engage_s = 2
    /\ out.by = 1
    /\ wk[1].pc = "poll_sleep"
    /\ wk[1].stuck_count = 1
    /\ wk[1].now = wk[1].session_at + cfg.engage_s
    /\ out.cmds = << Press("a1"), Press("a2") >>

(* The step just taken was an attacking cycle in which effect slot i was due *)
DueCheck(i) ==
    /\ WorkerActed(1)
    /\ wk'[1].pc = "poll_sleep"
    /\ ~SessionCreated
    /\ ~wk[1].se_applied[i]
    /\ wk'[1].now >= wk[1].next_se_check[i]

EffectPresses(i) ==
    Len(SelectSeq(out'.cmds, LAMBDA m : m = Press(cfg.status_effect_keys[i].key)))

RetryTimes(i) ==
    (wk'[1].now + cfg.status_effect_keys[i].retry_min) ..
    (wk'[1].now + cfg.status_effect_keys[i].retry_max)

(* The slot matched at its due check: applied, not pressed *)
CheckMatched(i) == wk'[1].se_applied[i] /\ EffectPresses(i) = 0

(* The slot did not match: pressed once and rescheduled by its own retry jitter *)
CheckMissed(i) ==
    /\ ~wk'[1].se_applied[i]
    /\ EffectPresses(i) = 1
    /\ wk'[1].next_se_check[i] \in RetryTimes(i)

(* The capture or the match raised: not pressed, checked again after the fixed retry *)
CheckRaised(i) ==
    /\ ~wk'[1].se_applied[i]
    /\ EffectPresses(i) = 0
    /\ wk'[1].next_se_check[i] = wk'[1].now + SE_EXC_RETRY

(* What holds of every slot outside its due checks *)
EffectFrame(i) ==
    /\ SessionCreated =>
          /\ EffectPresses(i) = 1
          /\ wk'[1].next_se_check[i] \in RetryTimes(i)
    /\ (~SessionCreated /\ ~DueCheck(i)) =>
          /\ EffectPresses(i) = 0
          /\ wk'[1].se_applied[i] = wk[1].se_applied[i]
          /\ wk'[1].next_se_check[i] = wk[1].next_se_check[i]

(* C16, as stated: each slot is pressed once when the session starts; at each of its
   due checks it either matches (applied, never pressed again in the session) or is
   pressed again and rescheduled to now + jitter(retryMin, retryMax); nothing else
   touches the slot. *)
C16_AsStated ==
    [][ WorkerActed(1) =>
          \A i \in EffectSlots :
            /\ EffectFrame(i)
            /\ DueCheck(i) => (CheckMatched(i) \/ CheckMissed(i)) ]_vars

(* C16, amended: a due check whose capture or match raises is a third outcome: the
   key is not pressed and the slot is checked again after the fixed retry time. *)
C16_IndependentSlots ==
    [][ WorkerActed(1) =>
          \A i \in EffectSlots :
            /\ EffectFrame(i)
            /\ DueCheck(i) => (CheckMatched(i) \/ CheckMissed(i) \/ CheckRaised(i)) ]_vars

C16_Witness ==
    /\ out.by = 1
    /\ wk[1].pc = "poll_sleep"
    /\ wk[1].session_at = wk[1].now - 2
    /\ wk[1].se_applied = << TRUE, FALSE >>
    /\ wk[1].next_se_check[1] = wk[1].now - 1
    /\ wk[1].next_se_check[2] = wk[1].now + 2
    /\ Press("e2") \in Range(out.cmds)
    /\ Press("e1") \notin Range(out.cmds)

(* C17: the shared buff timer changes only in an attacking cycle in which it is due,
   and then to now + buff_interval_s; session creation, stuck re-targeting, the
   unstuck holds and absent cycles leave it as it is. *)
C17_BuffTimerNeverReset ==
    [][ (WorkerActed(1) /\ wk'[1].next_buff_check # wk[1].next_buff_check) =>
          /\ wk'[1].pc = "poll_sleep"
          /\ wk'[1].now >= wk[1].next_buff_check
          /\ wk'[1].next_buff_check = wk'[1].now + cfg.buff_interval_s ]_vars

C17_Witness ==
    /\ out.by = 1
    /\ wk[1].session_at = wk[1].now
    /\ wk[1].next_buff_check > wk[1].now
    /\ wk[1].next_buff_check < wk[1].now + cfg.buff_interval_s

(* C19: a _serial_send of the worker that fails (the write raises, or the port is
   not open) neither ends nor blocks the loop: the worker goes on to the sleep that
   ends the step, and the only steps that leave the loop are the flag test at the
   loop top and the no-target safety stop, neither of which sends anything. *)
C19_SendFailureIgnored ==
    [][ WorkerActed(1) =>
          /\ out'.lost > 0 =>
                /\ wk'[1].pc \in {"poll_sleep", "tgt_sleep", "hold1_sleep",
                                   "hold2_sleep", "death_sleep"}
                /\ wk'[1].wake >= clock'
                /\ wk'[1].wake < INF
          /\ wk'[1].pc = "exit" =>
                /\ out'.lost = 0
                /\ ~monitoring \/ afterq' = afterq + 1 ]_vars

C19_Witness ==
    /\ out.by = 1
    /\ out.lost = 2
    /\ out.cmds = << >>
    /\ wk[1].pc = "poll_sleep"
    /\ wk[1].next_press[1] > wk[1].now
    /\ wk[1].next_buff_check > wk[1].now

(* C20: once the flag is cleared (no start can follow in this run), a worker that
   is in the loop leaves it, from whichever sleep it is in, unless the application
   is closed first and the process ends. *)
C20_WorkerLeavesLoop ==
    (~monitoring /\ Live(1)) ~> (wk[1].pc = "exit" \/ closed)

C20_Witness ==
    /\ ~monitoring
    /\ ~closed
    /\ wk[1].pc = "exit"
    /\ out.by = 1
    /\ out.op = "exit"
    /\ wk[1].stuck_count = 2
    /\ clock > MaxTime

(* C21: the cycle that creates a session sends the per-target effect keys first,
   each once and in configured order; afterwards every applied flag is false, every
   effect's next check lies in now + retry_min .. now + retry_max, no_target_since is
   cleared, and every attack slot is scheduled at now + engage_s (a slot that the
   same cycle fires, which needs engage_s = 0, is rescheduled by its own interval). *)
C21_SessionCreation ==
    [][ SessionCreated =>
          /\ Len(out'.cmds) >= Len(cfg.status_effect_keys)
          /\ \A i \in EffectSlots :
                /\ out'.cmds[i] = Press(cfg.status_effect_keys[i].key)
                /\ EffectPresses(i) = 1
                /\ ~wk'[1].se_applied[i]
                /\ wk'[1].next_se_check[i] \in RetryTimes(i)
          /\ \A i \in AttackSlots :
                IF Fired(i)
                  THEN cfg.engage_s = 0
                  ELSE wk'[1].next_press[i] = wk'[1].now + cfg.engage_s
          /\ wk'[1].no_target_since = NONE
          /\ wk'[1].session_at = wk'[1].now
          /\ wk'[1].hp_since = wk'[1].now ]_vars

C21_Witness ==
    /\ out.by = 1
    /\ wk[1].pc = "poll_sleep"
    /\ wk[1].session_at = wk[1].now
    /\ wk[1].now >= cfg.tgt_min
    /\ wk[1].stuck_count = 0
    /\ wk[1].no_target_since = NONE
    /\ wk[1].next_press = << wk[1].now + cfg.engage_s >>
    /\ SubSeq(out.cmds, 1, 2) = << Press("e1"), Press("e2") >>

(* Keys of the attack, per-target effect and buff rows *)
CombatKeys ==
    {cfg.attack_keys[i].key : i \in 1..Len(cfg.attack_keys)}
      \cup {cfg.status_effect_keys[i].key : i \in 1..Len(cfg.status_effect_keys)}
      \cup {cfg.buff_keys[i].key : i \in 1..Len(cfg.buff_keys)}

KeysSent == {m.k : m \in Range(out'.cmds)}

(* C22: the unstuck sequence sends HOLD key1 and waits its duration, then HOLD key2
   and waits its duration, then PRESS of the targeting key and ends the session
   (hp_since and prev_hp_pct cleared); none of its steps sends an attack, effect or
   buff key. *)
C22_UnstuckOrder ==
    [][ WorkerActed(1) =>
          /\ (wk'[1].pc = "hold1_sleep") =>
               /\ out'.cmds = << Hold(cfg.unstuck_key1, cfg.unstuck_dur1) >>
               /\ wk'[1].wake = clock' + cfg.unstuck_dur1
               /\ wk'[1].hp_since # NONE
          /\ (wk[1].pc = "hold1_sleep") =>
               /\ clock' = wk[1].wake
               /\ out'.cmds = << Hold(cfg.unstuck_key2, cfg.unstuck_dur2) >>
               /\ wk'[1].pc = "hold2_sleep"
               /\ wk'[1].wake = clock' + cfg.unstuck_dur2
               /\ wk'[1].hp_since = wk[1].hp_since
          /\ (wk[1].pc = "hold2_sleep") =>
               /\ clock' = wk[1].wake
               /\ out'.cmds = << Press(cfg.target_key) >>
               /\ wk'[1].pc = "tgt_sleep"
               /\ wk'[1].hp_since = NONE
               /\ wk'[1].prev_hp_pct = NONE
          /\ (wk'[1].pc \in {"hold1_sleep", "hold2_sleep"} \/ wk[1].pc = "hold2_sleep")
               => KeysSent \cap CombatKeys = {} ]_vars

C22_Witness ==
    /\ out.by = 1
    /\ out.op = "retarget"
    /\ clock = wk[1].now + cfg.unstuck_dur1 + cfg.unstuck_dur2
    /\ wk[1].prev_hp_pct = NONE
    /\ wk[1].hp_since = NONE
    /\ wk[1].hp_visible
    /\ Len(cfg.status_effect_keys) = 2

(* Keys of the movement holds, the death key and the targeting key *)
RecoveryKeys == {cfg.unstuck_key1, cfg.unstuck_key2, cfg.death_key, cfg.target_key}

(* C23: a step sends an attack, effect or buff key only if it is a cycle with a
   verified value present whose session has not reached the stuck timeout; a stuck
   cycle, the steps of the unstuck sequence and every absent cycle send nothing but
   the movement holds, the death key and the targeting key. *)
C23_CombatKeysOnlyWhenEngaged ==
    [][ WorkerActed(1) =>
          /\ (KeysSent \cap CombatKeys # {}) =>
               /\ IterVerified(1)
               /\ wk'[1].hp_visible
               /\ wk'[1].pc = "poll_sleep"
               /\ wk'[1].hp_since # NONE
               /\ wk'[1].now - wk'[1].hp_since < cfg.stuck_s
          /\ (wk'[1].pc # "poll_sleep") => KeysSent \subseteq RecoveryKeys
          /\ (IterVerified(1) /\ ~wk'[1].hp_visible) => KeysSent \subseteq RecoveryKeys
          /\ (IterVerified(1) /\ wk'[1].hp_visible /\ wk[1].hp_since # NONE
                 /\ wk'[1].now - wk[1].hp_since >= cfg.stuck_s
                 /\ wk'[1].hp_pct >= wk[1].prev_hp_pct)
               => KeysSent \subseteq RecoveryKeys ]_vars

C23_Witness ==
    /\ out.by = 1
    /\ out.op \in {"targeting", "post_death"}
    /\ ~wk[1].hp_visible
    /\ wk[1].next_press[1] <= wk[1].now
    /\ wk[1].next_buff_check <= wk[1].now
    /\ out.cmds = << Press(cfg.target_key) >>

(* The step just taken was a verified cycle with a value present, in a session that
   existed before it, whose value did not drop below the last observed one *)
PresentNoDecrease ==
    /\ IterVerified(1)
    /\ wk'[1].hp_visible
    /\ wk[1].hp_since # NONE
    /\ wk'[1].hp_pct >= wk[1].prev_hp_pct

StuckDetected ==
    /\ wk'[1].stuck_count = wk[1].stuck_count + 1
    /\ \/ out'.cmds = << Press(cfg.target_key) >> /\ wk'[1].hp_since = NONE
       \/ wk'[1].pc = "hold1_sleep"

(* C24: in a session whose verified value stays present and does not decrease, the
   first cycle at or after stuck_s since the last refresh is a stuck detection: no
   cycle ends in the poll sleep with the timeout reached, the detection presses the
   targeting key at once or starts the unstuck sequence, and a started sequence
   reaches its press of the targeting key unless the window is closed.  Held values
   count as present. *)
C24_StuckDetectionInTime ==
    /\ [][ (PresentNoDecrease /\ wk'[1].now - wk[1].hp_since >= cfg.stuck_s)
             => StuckDetected ]_vars
    /\ [](wk[1].pc = "poll_sleep" /\ wk[1].hp_since # NONE
            => wk[1].now - wk[1].hp_since < cfg.stuck_s)
    /\ (wk[1].pc = "hold1_sleep" /\ wk[1].wake + cfg.unstuck_dur2 <= MaxTime)
          ~> (closed \/ (out.by = 1 /\ out.op = "retarget"
                           /\ out.cmds = << Press(cfg.target_key) >>))

C24_Witness ==
    /\ out.by = 1
    /\ out.op = "stuck"
    /\ wk[1].raw_hp \in {NONE, 0}
    /\ wk[1].hp_pct = wk[1].last_good_hp
    /\ wk[1].hp_pct > 0
    /\ wk[1].stuck_count = 1
    /\ out.cmds = << Press(cfg.target_key) >>

(* The step just taken signalled the safety stop to the UI thread *)
SafetyStopSignalled == afterq' # afterq /\ out'.by = 1

(* C25: the safety stop is signalled only with no_target_timeout_s > 0, in an absent
   cycle, when no_target_since is at least the timeout old; no_target_since is set
   by the first absent cycle and cleared by every cycle with a verified value
   present (raw or held), so the absence was unbroken.  With a timeout of 0 the
   worker never signals the stop and every absent cycle presses the targeting
   key. *)
C25_SafetyStopOnlyAfterUnbrokenAbsence ==
    [][ WorkerActed(1) =>
          /\ SafetyStopSignalled =>
               /\ cfg.no_target_timeout_s > 0
               /\ ~wk'[1].hp_visible
               /\ wk[1].no_target_since # NONE
               /\ wk'[1].now - wk[1].no_target_since >= cfg.no_target_timeout_s
               /\ wk'[1].pc = "exit"
          /\ (IterVerified(1) /\ wk'[1].hp_visible) => wk'[1].no_target_since = NONE
          /\ (wk'[1].no_target_since # wk[1].no_target_since) =>
               \/ wk'[1].no_target_since = NONE /\ wk'[1].hp_visible
               \/ /\ wk[1].no_target_since = NONE
                  /\ wk'[1].no_target_since = wk'[1].now
                  /\ ~wk'[1].hp_visible
          /\ (cfg.no_target_timeout_s = 0) =>
               /\ ~SafetyStopSignalled
               /\ out'.op # "safety_stop"
               /\ NoTargetDecision => /\ Press(cfg.target_key) \in Range(out'.cmds)
                                       /\ wk'[1].pc = "tgt_sleep" ]_vars

C25_Witness ==
    /\ cfg.no_target_timeout_s = 0
    /\ out.by = 1
    /\ out.op \in {"targeting", "post_death"}
    /\ wk[1].no_target_since # NONE
    /\ wk[1].now - wk[1].no_target_since >= 3
    /\ wk[1].pc = "tgt_sleep"

BuffSlots == 1..Len(cfg.buff_keys)

BuffPresses == SelectSeq(out'.cmds, LAMBDA m : \E i \in BuffSlots : m = Press(cfg.buff_keys[i].key))

(* The step just taken ran the buff check: a present cycle short of the stuck
   timeout with the shared timer elapsed *)
BuffCheckRan ==
    /\ IterVerified(1)
    /\ wk'[1].hp_visible
    /\ wk'[1].pc = "poll_sleep"
    /\ wk'[1].now >= wk[1].next_buff_check

(* C26: a buff key is sent only by a buff check, and only where a template can fail
   to match; a check on a screen where no template matches presses every buff, in
   order, each time (no buff is ever marked applied), and on a screen where all
   match it presses none.  Every check sets the shared timer to now + interval and
   nothing else changes the timer, so two checks are at least one interval apart. *)
C26_BuffChecks ==
    [][ WorkerActed(1) =>
          /\ (BuffPresses # << >>) => BuffCheckRan /\ "miss" \in env.matches
          /\ BuffCheckRan =>
               /\ wk'[1].next_buff_check = wk'[1].now + cfg.buff_interval_s
               /\ (env.matches = {"miss"}) =>
                     BuffPresses = [i \in BuffSlots |-> Press(cfg.buff_keys[i].key)]
               /\ (env.matches = {"hit"}) => BuffPresses = << >>
               /\ Len(BuffPresses) <= Len(cfg.buff_keys)
          /\ (wk'[1].next_buff_check # wk[1].next_buff_check) => BuffCheckRan ]_vars

C26_Witness ==
    /\ env.matches = {"miss"}
    /\ out.by = 1
    /\ out.op = "attacking"
    /\ wk[1].now >= 2 * cfg.buff_interval_s
    /\ wk[1].next_buff_check = wk[1].now + cfg.buff_interval_s
    /\ wk[1].stuck_count >= 1
    /\ SubSeq(out.cmds, Len(out.cmds) - 1, Len(out.cmds)) = << Press("b1"), Press("b2") >>

(* C27: within one session a per-target effect key is pressed at most once per
   cycle, and a re-press comes no sooner than the slot's retry_min after the slot's
   previous press, the press at session start included; a check that raised in
   between only postpones the next one. *)
C27_RetryMinBetweenPresses ==
    [][ WorkerActed(1) =>
          \A i \in EffectSlots :
            /\ EffectPresses(i) <= 1
            /\ (EffectPresses(i) = 1 /\ ~SessionCreated) =>
                 /\ wk[1].se_pressed_at[i] # NONE
                 /\ wk[1].se_pressed_at[i] >= wk[1].session_at
                 /\ wk'[1].session_at = wk[1].session_at
                 /\ wk'[1].now - wk[1].se_pressed_at[i] >= cfg.status_effect_keys[i].retry_min
            /\ (EffectPresses(i) = 1) => wk'[1].se_pressed_at[i] = wk'[1].now ]_vars

C27_Witness ==
    /\ out.by = 1
    /\ wk[1].pc = "poll_sleep"
    /\ wk[1].session_at = wk[1].now - cfg.status_effect_keys[2].retry_min
    /\ wk[1].se_pressed_at[2] = wk[1].now
    /\ wk[1].se_pressed_at[1] = wk[1].session_at
    /\ wk[1].next_se_check[1] = wk[1].now - 1 + SE_EXC_RETRY
    /\ out.cmds = << Press("e2") >>

(* The step just taken was a cycle whose verified value dropped below the last
   observed one *)
DecreaseCycle ==
    /\ IterVerified(1)
    /\ wk'[1].hp_visible
    /\ wk[1].prev_hp_pct # NONE
    /\ wk'[1].hp_pct < wk[1].prev_hp_pct

(* C28: stuck_count goes back to 0 only in an absent cycle that runs the targeting
   branch; a decrease of the value, the creation of a session and the steps of the
   unstuck sequence leave it alone, so every stuck detection that finds a strike
   already counted starts the movement sequence. *)
C28_StrikesSurviveSessions ==
    [][ WorkerActed(1) =>
          /\ (wk'[1].stuck_count < wk[1].stuck_count) =>
               /\ wk'[1].stuck_count = 0
               /\ NoTargetDecision
               /\ ~wk'[1].hp_visible
               /\ Press(cfg.target_key) \in Range(out'.cmds)
          /\ (DecreaseCycle \/ SessionCreated) => wk'[1].stuck_count >= wk[1].stuck_count
          /\ (DecreaseCycle /\ wk[1].hp_since # NONE) =>
               /\ wk'[1].stuck_count = wk[1].stuck_count
               /\ wk'[1].hp_since = wk'[1].now
          /\ (SessionCreated /\ cfg.stuck_s > 0) => wk'[1].stuck_count = wk[1].stuck_count
          /\ (wk[1].pc \in {"hold1_sleep", "hold2_sleep"}) =>
               wk'[1].stuck_count = wk[1].stuck_count
          /\ (wk'[1].stuck_count = wk[1].stuck_count + 1 /\ wk[1].stuck_count >= 1) =>
               /\ wk'[1].pc = "hold1_sleep"
               /\ out'.cmds = << Hold(cfg.unstuck_key1, cfg.unstuck_dur1) >> ]_vars

C28_Witness ==
    /\ out.by = 1
    /\ out.op = "unstuck"
    /\ wk[1].pc = "hold1_sleep"
    /\ wk[1].stuck_count = 2
    /\ wk[1].session_at # NONE
    /\ wk[1].hp_since > wk[1].session_at
    /\ wk[1].now - wk[1].hp_since >= cfg.stuck_s

(* The last verified cycle ended in a stuck re-target: the worker sleeps the
   targeting delay of a cycle that had a verified value present, or a perception
   back-off that followed it *)
AfterStuckRetarget ==
    \/ wk[1].pc = "tgt_sleep" /\ wk[1].hp_visible
    \/ wk[1].pc = "err_sleep" /\ wk[1].hp_visible /\ wk[1].hp_since = NONE

(* C29: the first cycle with a verified value present after a stuck re-target, raw
   or held, creates a new session at once: it presses every per-target effect key,
   clears the applied flags and delays every attack slot by engage_s. *)
C29_NewSessionAfterRetarget ==
    [][ (AfterStuckRetarget /\ IterVerified(1) /\ wk'[1].hp_visible) =>
          /\ wk[1].hp_since = NONE
          /\ wk'[1].session_at = wk'[1].now
          /\ wk'[1].hp_since = wk'[1].now
          /\ wk'[1].prev_hp_pct = wk'[1].hp_pct
          /\ wk'[1].pc = "poll_sleep"
          /\ \A i \in EffectSlots :
                /\ EffectPresses(i) = 1
                /\ ~wk'[1].se_applied[i]
          /\ \A i \in AttackSlots :
                /\ cfg.engage_s > 0 => ~Fired(i)
                /\ ~Fired(i) => wk'[1].next_press[i] = wk'[1].now + cfg.engage_s ]_vars

C29_Witness ==
    /\ out.by = 1
    /\ out.op = "attacking"
    /\ wk[1].session_at = wk[1].now
    /\ wk[1].stuck_count >= 1
    /\ wk[1].raw_hp = NONE
    /\ wk[1].hp_pct = wk[1].last_good_hp
    /\ wk[1].prev_hp_visible
    /\ out.cmds = << Press("e1"), Press("e2") >>
    /\ wk[1].next_press[1] = wk[1].now + cfg.engage_s

DeathKeySent == cfg.death_key # "" /\ Press(cfg.death_key) \in Range(out'.cmds)

(* C30: an absent cycle presses the death key if and only if a death key is
   configured and the last completed cycle before it had a verified value present;
   a cycle that ended its session by a stuck re-target counts as such a cycle. *)
C30_DeathKeyAfterPresence ==
    [][ (IterVerified(1) /\ ~wk'[1].hp_visible) =>
          /\ DeathKeySent <=> (cfg.death_key # "" /\ wk[1].hp_visible)
          /\ DeathKeySent => /\ out'.cmds = << Press(cfg.death_key) >>
                              /\ wk'[1].pc = "death_sleep"
                              /\ wk'[1].wake = clock' + cfg.death_delay
          /\ (AfterStuckRetarget /\ cfg.death_key # "") => DeathKeySent ]_vars

C30_Witness ==
    /\ out.by = 1
    /\ out.op = "death"
    /\ out.cmds = << Press(cfg.death_key) >>
    /\ ~wk[1].hp_visible
    /\ wk[1].hp_since = NONE
    /\ wk[1].session_at = NONE
    /\ wk[1].stuck_count >= 1

(* The step just taken was a cycle whose raw reading was 0 with the zero streak at
   hp_confirm_count or more *)
ZeroConfirmedCycle ==
    /\ IterVerified(1)
    /\ wk'[1].raw_hp = 0
    /\ ZeroConfirmed(wk'[1], cfg)

(* ... and the zero streak reached hp_confirm_count in this very cycle *)
ZeroReachedCycle ==
    ZeroConfirmedCycle /\ wk'[1].hp_zero_streak = cfg.hp_confirm_count

ZeroIsPresent ==
    /\ wk'[1].hp_pct = 0
    /\ wk'[1].hp_visible
    /\ ~DeathKeySent
    /\ wk'[1].no_target_since = NONE
    /\ wk'[1].pc # "death_sleep"

AbsentOnlyOnNone ==
    (IterVerified(1) /\ ~wk'[1].hp_visible)
      <=> ( /\ IterVerified(1)
            /\ wk'[1].raw_hp = NONE
            /\ (GoneConfirmed(wk'[1], cfg) \/ wk[1].last_good_hp = NONE) )

(* C31 as stated: a cycle that confirms a zero reading has the verified value 0,
   keeps the session active, presses no death key and leaves no_target_since
   cleared; a verified value is absent only on a None that is confirmed or has no
   last good value behind it. *)
C31_AsStated ==
    [][ /\ ZeroConfirmedCycle => ZeroIsPresent
        /\ ZeroReachedCycle => wk'[1].hp_since # NONE
        /\ AbsentOnlyOnNone ]_vars

(* C31, amended: the same, except that the session is ended in that cycle when the
   cycle is a stuck detection; a session that stood on a value above 0 is refreshed
   by the drop to 0 and stays. *)
C31_ZeroIsPresentValue ==
    [][ /\ ZeroConfirmedCycle =>
             /\ ZeroIsPresent
             /\ wk'[1].hp_since # NONE \/ StuckDetected
             /\ (wk[1].hp_since # NONE /\ wk[1].prev_hp_pct > 0) =>
                   /\ wk'[1].hp_since = wk'[1].now
                   /\ wk'[1].session_at = wk[1].session_at
        /\ AbsentOnlyOnNone ]_vars

C31_Witness ==
    /\ out.by = 1
    /\ wk[1].pc = "poll_sleep"
    /\ wk[1].raw_hp = 0
    /\ wk[1].hp_zero_streak = cfg.hp_confirm_count
    /\ wk[1].hp_pct = 0
    /\ wk[1].last_good_hp > 0
    /\ wk[1].prev_hp_visible
    /\ wk[1].session_at < wk[1].now
    /\ wk[1].hp_since = wk[1].now
    /\ wk[1].no_target_since = NONE
    /\ cfg.death_key # ""

(* The step just taken ran the targeting branch of an absent cycle *)
TargetingRan == NoTargetDecision /\ wk'[1].pc = "tgt_sleep"

(* Log entry n is a held value: the verifier put the last good value in place of
   the raw reading *)
HeldAt(n) == hist[n].hp # hist[n].raw

(* C32: the targeting branch of an absent cycle leaves last_good_hp undefined, and
   only a reading > 0 defines it again.  While it is undefined a raw 0 or None is
   passed through whatever the streaks are: the 0 is a present value and starts a
   session in that cycle, the None is absent.  In the log: the entry after an absent
   one is never held, and every held entry has a reading > 0 before it with no
   absent cycle in between. *)
C32_NoDebounceAfterAbsence ==
    /\ [][ WorkerActed(1) =>
             /\ TargetingRan => wk'[1].last_good_hp = NONE
             /\ (wk'[1].last_good_hp # NONE /\ wk'[1].last_good_hp # wk[1].last_good_hp) =>
                  /\ IterVerified(1)
                  /\ wk'[1].raw_hp > 0
                  /\ wk'[1].last_good_hp = wk'[1].raw_hp
             /\ (IterVerified(1) /\ wk[1].last_good_hp = NONE /\ wk'[1].raw_hp = 0) =>
                  /\ wk'[1].hp_pct = 0
                  /\ wk'[1].hp_visible
                  /\ wk'[1].hp_since # NONE \/ StuckDetected
                  /\ wk[1].hp_since = NONE => wk'[1].hp_since = wk'[1].now
             /\ (IterVerified(1) /\ wk[1].last_good_hp = NONE /\ wk'[1].raw_hp = NONE) =>
                  /\ wk'[1].hp_pct = NONE
                  /\ ~wk'[1].hp_visible ]_vars
    /\ [](\A n \in 1..Len(hist) :
            /\ (n > 1 /\ hist[n - 1].hp = NONE /\ hist[n].raw \in {NONE, 0})
                 => hist[n].hp = hist[n].raw
            /\ HeldAt(n) =>
                 \E k \in 1..(n - 1) :
                   /\ hist[k].raw > 0
                   /\ hist[n].hp = hist[k].raw
                   /\ \A j \in k..(n - 1) : hist[j].hp # NONE)

C32_Witness ==
    /\ cfg.hp_confirm_count = 2
    /\ Len(hist) = 4
    /\ [n \in 1..4 |-> hist[n].raw] = << 2, NONE, NONE, 0 >>
    /\ [n \in 1..4 |-> hist[n].hp] = << 2, 2, NONE, 0 >>
    /\ ~hist[4].zero
    /\ wk[1].last_good_hp = NONE
    /\ wk[1].session_at = wk[1].now

(* Log entries k+1..n are None and 0 readings in alternation, after the reading
   > 0 of entry k *)
Alternates(k, n) ==
    /\ hist[k].raw > 0
    /\ \A j \in (k + 1)..n :
         /\ hist[j].raw \in {NONE, 0}
         /\ j > k + 1 => hist[j].raw # hist[j - 1].raw

(* C33: at most one of hp_gone_streak and hp_zero_streak is non-zero; with
   hp_confirm_count >= 2, None and 0 readings that alternate after a reading > 0
   confirm nothing, and every one of them is reported as that last good value. *)
C33_StreaksInterrupt ==
    /\ \A w \in Workers : wk[w].hp_gone_streak = 0 \/ wk[w].hp_zero_streak = 0
    /\ cfg.hp_confirm_count >= 2 =>
         \A k \in 1..Len(hist) : \A n \in k..Len(hist) :
           Alternates(k, n) =>
             \A j \in (k + 1)..n :
               /\ ~hist[j].gone
               /\ ~hist[j].zero
               /\ hist[j].hp = hist[k].raw

C33_Witness ==
    /\ cfg.hp_confirm_count = 2
    /\ Len(hist) = 4
    /\ [n \in 1..4 |-> hist[n].raw] = << 2, NONE, 0, NONE >>
    /\ [n \in 1..4 |-> hist[n].hp] = << 2, 2, 2, 2 >>
    /\ wk[1].hp_gone_streak = 1
    /\ wk[1].hp_zero_streak = 0
    /\ wk[1].hp_visible

(* The step just taken was a cycle whose verified value is the last good value put
   in place of an unconfirmed None or 0 *)
HeldCycle ==
    /\ IterVerified(1)
    /\ wk'[1].raw_hp \in {NONE, 0}
    /\ wk'[1].hp_pct # wk'[1].raw_hp

(* C34: a held value is never below prev_hp_pct, so a cycle that reports one never
   refreshes hp_since: a session that existed before the cycle keeps its hp_since
   or loses it to a stuck detection.  As a state invariant, prev_hp_pct never
   exceeds last_good_hp while both are defined. *)
C34_HeldNeverRefreshes ==
    /\ [][ HeldCycle =>
             /\ wk'[1].hp_pct = wk[1].last_good_hp
             /\ wk[1].prev_hp_pct # NONE => wk'[1].hp_pct >= wk[1].prev_hp_pct
             /\ wk[1].hp_since # NONE =>
                  \/ wk'[1].hp_since = wk[1].hp_since
                  \/ wk'[1].hp_since = NONE /\ StuckDetected ]_vars
    /\ [](\A w \in Workers :
            (wk[w].prev_hp_pct # NONE /\ wk[w].last_good_hp # NONE)
              => wk[w].prev_hp_pct <= wk[w].last_good_hp)

C34_Witness ==
    /\ out.by = 1
    /\ wk[1].pc = "poll_sleep"
    /\ wk[1].raw_hp \in {NONE, 0}
    /\ wk[1].hp_pct = wk[1].last_good_hp
    /\ wk[1].prev_hp_pct = wk[1].hp_pct
    /\ wk[1].hp_pct = 1
    /\ wk[1].hp_since > wk[1].session_at
    /\ wk[1].hp_since < wk[1].now

----------------------------------------------------------------------------
(* The device (src/pico/code.py).  Text is a sequence of one-character strings. *)

MaxLines == 2         \* lines the host writes in a run of the device
MaxParseLines == 1    \* the same, before the final STOP, in the run that tries every kind of line

LowerAlpha == << "a", "b", "c", "d", "e", "f", "g", "h", "i", "j", "k", "l", "m", "n", "o", "p", "q", "r", "s", "t", "u", "v", "w", "x", "y", "z" >>
UpperAlpha == << "A", "B", "C", "D", "E", "F", "G", "H", "I", "J", "K", "L", "M", "N", "O", "P", "Q", "R", "S", "T", "U", "V", "W", "X", "Y", "Z" >>
Digits == << "0", "1", "2", "3", "4", "5", "6", "7", "8", "9" >>

Whitespace == {" ", "\n", "\r", "\t"}

(* str.upper and str.lower, character by character *)
UpperCh(c) ==
    IF \E i \in DOMAIN LowerAlpha : LowerAlpha[i] = c
      THEN UpperAlpha[CHOOSE i \in DOMAIN LowerAlpha : LowerAlpha[i] = c]
      ELSE c

LowerCh(c) ==
    IF \E i \in DOMAIN UpperAlpha : UpperAlpha[i] = c
      THEN LowerAlpha[CHOOSE i \in DOMAIN UpperAlpha : UpperAlpha[i] = c]
      ELSE c

Upper(s) == [i \in DOMAIN s |-> UpperCh(s[i])]

Lower(s) == [i \in DOMAIN s |-> LowerCh(s[i])]

(* v handed to Op as a value: what an assignment to a local name does in the code *)
Bind(v, Op(_)) == CHOOSE r \in {Op(x) : x \in {v}} : TRUE

(* The characters of s at the positions in keep, in order *)
Pick(s, keep) ==
    [k \in 1..Cardinality(keep) |->
        s[CHOOSE i \in keep : Cardinality({j \in keep : j < i}) = k - 1]]

(* str.strip *)
LStrip(s) ==
    IF \A i \in DOMAIN s : s[i] \in Whitespace THEN << >>
    ELSE SubSeq(s, CHOOSE i \in DOMAIN s :
                      s[i] \notin Whitespace /\ \A j \in 1..(i - 1) : s[j] \in Whitespace,
                Len(s))

RStrip(s) ==
    IF \A i \in DOMAIN s : s[i] \in Whitespace THEN << >>
    ELSE SubSeq(s, 1, CHOOSE i \in DOMAIN s :
                         s[i] \notin Whitespace /\ \A j \in (i + 1)..Len(s) : s[j] \in Whitespace)

Strip(s) == Bind(LStrip(s), RStrip)

(* `pat in s` *)
Contains(s, pat) ==
    \E i \in 1..(Len(s) - Len(pat) + 1) : SubSeq(s, i, i + Len(pat) - 1) = pat

(* str.startswith *)
StartsWith(s, pat) == Len(s) >= Len(pat) /\ SubSeq(s, 1, Len(pat)) = pat

(* str.split(sep): the pieces between the separators, empty ones included *)
Split(s, sep) ==
    Bind({i \in DOMAIN s : s[i] = sep}, LAMBDA seps :
        LET at(k) == IF k = 0 THEN 0
                     ELSE IF k > Cardinality(seps) THEN Len(s) + 1
                     ELSE CHOOSE i \in seps : Cardinality({j \in seps : j < i}) = k - 1
        IN [k \in 1..(Cardinality(seps) + 1) |-> SubSeq(s, at(k - 1) + 1, at(k) - 1)])

(* .replace("\r", "\n") *)
CrToLf(s) == [i \in DOMAIN s |-> IF s[i] = "\r" THEN "\n" ELSE s[i]]

(* .replace("\r\n", "\n").replace("\r", "\n"): the "\n" of every "\r\n" goes, then
   every "\r" becomes "\n" *)
Newlines(s) ==
    Bind({i \in DOMAIN s : ~(i > 1 /\ s[i] = "\n" /\ s[i - 1] = "\r")}, LAMBDA keep :
        Bind(Pick(s, keep), CrToLf))

HasLineEnd(s) == \E i \in DOMAIN s : s[i] \in {"\n", "\r"}

(* Position of the first "\n" of s *)
FirstLf(s) == CHOOSE i \in DOMAIN s : s[i] = "\n" /\ \A j \in 1..(i - 1) : s[j] # "\n"

(* int(s): surrounding whitespace is ignored, one sign, then digits only *)
Unsigned(s) == s # << >> /\ \A i \in DOMAIN s : \E d \in DOMAIN Digits : Digits[d] = s[i]

IsInt(s) ==
    Bind(Strip(s), LAMBDA u :
        \/ Unsigned(u)
        \/ u # << >> /\ u[1] \in {"-", "+"} /\ Unsigned(Tail(u)))

DigitVal(c) == (CHOOSE d \in DOMAIN Digits : Digits[d] = c) - 1

RECURSIVE DigitsVal(_, _)
DigitsVal(s, n) == IF n = 0 THEN 0 ELSE 10 * DigitsVal(s, n - 1) + DigitVal(s[n])

UnsignedVal(s) == DigitsVal(s, Len(s))

IntVal(s) ==
    Bind(Strip(s), LAMBDA u :
        IF u[1] = "-" THEN 0 - UnsignedVal(Tail(u))
        ELSE IF u[1] = "+" THEN UnsignedVal(Tail(u))
        ELSE UnsignedVal(u))

(* Lines 22-56: the key names the device knows (the letters, the digits, and of the
   named keys the ones used here) *)
KEY_MAP ==
    { << LowerAlpha[i] >> : i \in DOMAIN LowerAlpha }
      \cup { << Digits[i] >> : i \in DOMAIN Digits }
      \cup { << "f", "1" >>, << "s", "p", "a", "c", "e" >> }

CMD_START == << "S", "T", "A", "R", "T" >>
CMD_STOP == << "S", "T", "O", "P" >>
CMD_PRESS == << "P", "R", "E", "S", "S" >>
CMD_HOLD == << "H", "O", "L", "D" >>

(* Line 90: the key names of a START line's second field *)
KeyNames(field) ==
    Bind(Split(field, ","), LAMBDA ks :
        SelectSeq([i \in DOMAIN ks |-> Bind(Bind(ks[i], Strip), Lower)],
                  LAMBDA k : k # << >>))

(* Lines 75-96 *)
parse_start(line) ==
    Bind(Split(line, ";"), LAMBDA parts :
        IF Len(parts) # 4 THEN [ok |-> FALSE]
        ELSE IF Bind(Bind(parts[1], Strip), Upper) # CMD_START THEN [ok |-> FALSE]
        ELSE IF ~IsInt(parts[3]) \/ ~IsInt(parts[4]) THEN [ok |-> FALSE]
        ELSE Bind(<< IntVal(parts[3]), IntVal(parts[4]), KeyNames(parts[2]) >>, LAMBDA v :
            IF v[1] < 0 \/ v[2] < v[1] THEN [ok |-> FALSE]
            ELSE IF \E i \in DOMAIN v[3] : v[3][i] \notin KEY_MAP THEN [ok |-> FALSE]
            ELSE [ok |-> TRUE, keys |-> v[3], min_ms |-> v[1], max_ms |-> v[2]]))

(* mutant: a PRESS line with more than two fields is acted on as well *)
PressKeyAnyFields(line) ==
    Bind(Split(line, ";"), LAMBDA parts :
        IF /\ StartsWith(Bind(line, Upper), Append(CMD_PRESS, ";"))
           /\ Bind(Bind(parts[2], Strip), Lower) \in KEY_MAP
          THEN Bind(Bind(parts[2], Strip), Lower)
          ELSE << >>)

(* Lines 163-167: the key of a PRESS line the device acts on, << >> if it does not *)
PressKey(line) ==
    Bind(Split(line, ";"), LAMBDA parts :
        IF /\ StartsWith(Bind(line, Upper), Append(CMD_PRESS, ";"))
           /\ Len(parts) = 2
           /\ Bind(Bind(parts[2], Strip), Lower) \in KEY_MAP
          THEN Bind(Bind(parts[2], Strip), Lower)
          ELSE << >>)

(* Lines 172-180: the key of a HOLD line the device acts on, << >> if it does not *)
HoldKey(line) ==
    Bind(Split(line, ";"), LAMBDA parts :
        IF /\ StartsWith(Bind(line, Upper), Append(CMD_HOLD, ";"))
           /\ Len(parts) = 3
           /\ Bind(Bind(parts[2], Strip), Lower) \in KEY_MAP
           /\ (IF IsInt(Bind(parts[3], Strip)) THEN IntVal(Bind(parts[3], Strip)) ELSE 0) > 0
          THEN Bind(Bind(parts[2], Strip), Lower)
          ELSE << >>)

(* Line 185 and 186-187 *)
StartAccepted(line) ==
    /\ StartsWith(Bind(line, Upper), Append(CMD_START, ";"))
    /\ parse_start(line).ok

hostVars == <<cfg, env, monitoring, running, serial_port, monitor_start_btn,
              monitor_stop_btn, closed, afterq, clock, wk, out, recording, hist, chan>>

DevStep(d) == dev' = d /\ UNCHANGED hostVars

(* The host writes one line and its "\n" (_serial_send, line 673) *)
HostSend(line, max) ==
    /\ dev.sent < max
    /\ DevStep([dev EXCEPT
         !.wire = @ \o line \o << "\n" >>,
         !.sent = @ + 1,
         !.stop_after_start =
             IF StartsWith(Upper(line), Append(CMD_START, ";")) THEN FALSE
             ELSE IF Bind(Bind(line, Strip), Upper) = CMD_STOP THEN TRUE
             ELSE @])

(* The host ends its run with a STOP (_stop_monitoring, _on_stop) *)
HostStop(max) ==
    /\ dev.sent = max
    /\ DevStep([dev EXCEPT !.wire = @ \o CMD_STOP \o << "\n" >>,
                            !.sent = @ + 1,
                            !.stop_after_start = TRUE])

(* One more character reaches the device's input buffer *)
Arrive ==
    /\ dev.wire # << >>
    /\ DevStep([dev EXCEPT !.wire = Tail(@), !.rx = Append(@, Head(dev.wire))])

(* Lines 145-150: main() reads all that is waiting; with nothing waiting it sleeps
   and tries again *)
MainRead ==
    /\ dev.pc = "main_top"
    /\ dev.rx # << >>
    /\ DevStep([dev EXCEPT !.line_buf = @ \o dev.rx, !.rx = << >>, !.pc = "main_lines"])

(* Lines 152-158: the next complete line of main()'s buffer, stripped *)
NextLine(d) ==
    Bind(Newlines(d.line_buf), LAMBDA text : Strip(SubSeq(text, 1, FirstLf(text) - 1)))

(* Lines 152-158: what stays in main()'s buffer behind that line *)
RestOfBuf(d) ==
    Bind(Newlines(d.line_buf), LAMBDA text : SubSeq(text, FirstLf(text) + 1, Len(text)))

(* Lines 160-189: what the device does with one stripped line, r being the device with
   the line taken off its buffer *)
Command(r, line) ==
    IF line = << >> \/ Upper(line) = CMD_STOP
      THEN r
    ELSE IF StartsWith(Upper(line), Append(CMD_PRESS, ";"))
      THEN Bind(PressKey(line), LAMBDA key :
               IF key # << >>
                 THEN [r EXCEPT !.down = @ \cup {key}, !.pc = "press_sleep"]
                 ELSE r)
    ELSE IF StartsWith(Upper(line), Append(CMD_HOLD, ";"))
      THEN Bind(HoldKey(line), LAMBDA key :
               IF key # << >>
                 THEN [r EXCEPT !.down = @ \cup {key}, !.pc = "hold_sleep"]
                 ELSE r)
    ELSE Bind(parse_start(line), LAMBDA parsed :
             IF StartsWith(Upper(line), Append(CMD_START, ";")) /\ parsed.ok
               THEN [r EXCEPT !.keys = parsed.keys, !.buf = << >>, !.pc = "loop_top"]
               ELSE r)

(* Lines 152-189: the device after one pass of the inner loop, up to the first key
   going down or the call of run_loop *)
MainAfter(d) ==
    IF ~HasLineEnd(d.line_buf)
      THEN [d EXCEPT !.pc = "main_top"]
      ELSE Bind(NextLine(d), LAMBDA line :
               Bind([d EXCEPT !.line_buf = RestOfBuf(d), !.line = line], LAMBDA r :
                   Command(r, line)))

MainLine ==
    /\ dev.pc = "main_lines"
    /\ DevStep(MainAfter(dev))

(* mutant: release_all leaves the keys down *)
release_all_nothing(down) == down

(* Keyboard.release_all *)
release_all(down) == {}

(* Lines 169-170 *)
PressRelease ==
    /\ dev.pc = "press_sleep"
    /\ DevStep([dev EXCEPT !.down = release_all(@), !.pc = "main_lines"])

(* Lines 182-183 *)
HoldRelease ==
    /\ dev.pc = "hold_sleep"
    /\ DevStep([dev EXCEPT !.down = release_all(@), !.pc = "main_lines"])

(* Lines 108-119: does run_loop stop on this buffer *)
StopSeen(buf) ==
    \/ Contains(buf, CMD_STOP)
    \/ Bind(Bind(buf, Strip), Upper) = CMD_STOP
    \/ /\ HasLineEnd(buf)
       /\ Bind(Split(Bind(buf, CrToLf), "\n"), LAMBDA lines :
              \E i \in 1..(Len(lines) - 1) : Bind(Bind(lines[i], Strip), Upper) = CMD_STOP)

(* Lines 117-119: the unfinished last line stays in run_loop's buffer *)
LastPiece(buf) ==
    IF HasLineEnd(buf)
      THEN Bind(Split(Bind(buf, CrToLf), "\n"), LAMBDA lines : lines[Len(lines)])
      ELSE buf

(* Lines 103-129: the top of run_loop's loop up to the end of the delay *)
LoopAfter(d) ==
    Bind(d.buf \o d.rx, LAMBDA buf :
        IF d.rx # << >> /\ StopSeen(buf)
          THEN [d EXCEPT !.rx = << >>, !.buf = << >>, !.pc = "loop_drain"]
        ELSE IF d.keys = << >>
          THEN [d EXCEPT !.rx = << >>, !.buf = LastPiece(buf)]
        ELSE [d EXCEPT !.rx = << >>, !.buf = LastPiece(buf), !.idx = 1, !.pc = "loop_press"])

LoopTop ==
    /\ dev.pc = "loop_top"
    /\ dev.keys = << >> => dev.rx # << >>
    /\ DevStep(LoopAfter(dev))

(* Line 133 *)
LoopPress ==
    /\ dev.pc = "loop_press"
    /\ DevStep([dev EXCEPT !.down = @ \cup {dev.keys[dev.idx]}, !.pc = "loop_release"])

(* Lines 134-135, and the next turn of `for kc in keys` *)
LoopRelease ==
    /\ dev.pc = "loop_release"
    /\ IF dev.idx < Len(dev.keys)
         THEN DevStep([dev EXCEPT !.down = @ \ {dev.keys[dev.idx]}, !.idx = @ + 1,
                                  !.pc = "loop_press"])
         ELSE DevStep([dev EXCEPT !.down = @ \ {dev.keys[dev.idx]}, !.idx = 0,
                                  !.pc = "loop_top"])

(* Lines 137-139, and the return into main()'s inner loop *)
LoopDrain ==
    /\ dev.pc = "loop_drain"
    /\ DevStep([dev EXCEPT !.rx = << >>, !.buf = << >>, !.keys = << >>, !.pc = "main_lines"])

(* The lines of a host that starts and stops the key loop *)
LoopLines == { << "S", "T", "A", "R", "T", ";", "a", ";", "0", ";", "0" >>, CMD_STOP }

(* One line of every kind the command loop tells apart *)
ParseLines ==
    { << "P", "R", "E", "S", "S", ";", "a" >>,
      << "p", "r", "e", "s", "s", ";", " ", "A", " " >>,
      << "P", "R", "E", "S", "S", ";", "?" >>,
      << "P", "R", "E", "S", "S", ";", "a", ";", "1" >>,
      << "H", "O", "L", "D", ";", "a", ";", "2" >>,
      << "H", "O", "L", "D", ";", "a", ";", "0" >>,
      << "H", "O", "L", "D", ";", "a", ";", "x" >>,
      << "H", "O", "L", "D", ";", "a" >>,
      << "H", "O", "L", "D", ";", "?", ";", "2" >>,
      << "H", "O", "L", "D", ";", "a", ";", "-", "1" >>,
      << "S", "T", "A", "R", "T", ";", "a", ",", "b", ";", "0", ";", "1" >>,
      << "S", "T", "A", "R", "T", ";", "a", ";", "1", ";", "0" >>,
      << "S", "T", "A", "R", "T", ";", "?", ";", "0", ";", "0" >>,
      << "S", "T", "A", "R", "T", ";", "a", ";", "0" >>,
      << "S", "T", "A", "R", "T", ";", "a", ";", "x", ";", "1" >>,
      << "J", "U", "N", "K" >>,
      CMD_STOP }

InitDevice == InitWith({BaseConfig}, FullEnv, FALSE)

NextDevice ==
    \/ \E line \in LoopLines : HostSend(line, MaxLines)
    \/ Arrive
    \/ MainRead
    \/ MainLine
    \/ LoopTop
    \/ LoopPress
    \/ LoopRelease
    \/ LoopDrain

SpecDevice == InitDevice /\ [][NextDevice]_vars

(* The device runs whenever it can, and what the host wrote arrives *)
SpecDeviceFair ==
    /\ SpecDevice
    /\ WF_vars(Arrive)
    /\ WF_vars(MainRead \/ MainLine \/ LoopTop \/ LoopPress \/ LoopRelease \/ LoopDrain)

NextParse ==
    \/ \E line \in ParseLines : HostSend(line, MaxParseLines)
    \/ HostStop(MaxParseLines)
    \/ Arrive
    \/ MainRead
    \/ MainLine
    \/ PressRelease
    \/ HoldRelease
    \/ LoopTop
    \/ LoopPress
    \/ LoopRelease
    \/ LoopDrain

SpecParse == InitDevice /\ [][NextParse]_vars

(* The device is inside run_loop *)
InRunLoop == dev.pc \in {"loop_top", "loop_press", "loop_release", "loop_drain"}

(* The device is in main()'s command loop, no command under way *)
Listening == dev.pc \in {"main_top", "main_lines"}

(* C35: while the device runs the key loop of an accepted START and the host has
   written a STOP after that START, the loop eventually ends and the device is back
   in its command loop, however the characters were split into reads. *)
C35_StopEndsLoop ==
    (InRunLoop /\ dev.stop_after_start) ~> Listening

----------------------------------------------------------------------------
(* Lines the command loop acts on *)

(* The i-th field of a line, between the ";", without surrounding blanks *)
Field(line, i) == Strip(Split(line, ";")[i])

FieldCount(line) == Len(Split(line, ";"))

(* PRESS;<key>: exactly 2 fields, a key the device knows *)
WellFormedPress(line) ==
    /\ FieldCount(line) = 2
    /\ Upper(Split(line, ";")[1]) = CMD_PRESS
    /\ Lower(Field(line, 2)) \in KEY_MAP

(* HOLD;<key>;<durationMs>: exactly 3 fields, a key the device knows, an integer
   duration above 0 *)
WellFormedHold(line) ==
    /\ FieldCount(line) = 3
    /\ Upper(Split(line, ";")[1]) = CMD_HOLD
    /\ Lower(Field(line, 2)) \in KEY_MAP
    /\ IsInt(Field(line, 3))
    /\ IntVal(Field(line, 3)) > 0

(* START;<keys>;<min>;<max>: exactly 4 fields, integers 0 <= min <= max, every key
   named between the "," known *)
WellFormedStart(line) ==
    /\ FieldCount(line) = 4
    /\ Upper(Split(line, ";")[1]) = CMD_START
    /\ IsInt(Field(line, 3)) /\ IsInt(Field(line, 4))
    /\ 0 <= IntVal(Field(line, 3))
    /\ IntVal(Field(line, 3)) <= IntVal(Field(line, 4))
    /\ LET names == Split(Field(line, 2), ",")
       IN \A i \in DOMAIN names :
              Strip(names[i]) = << >> \/ Lower(Strip(names[i])) \in KEY_MAP

(* main() takes a complete line off its buffer in this step *)
TakesLine == dev.pc = "main_lines" /\ HasLineEnd(dev.line_buf) /\ dev' # dev

(* A key goes down in this step *)
KeyGoesDown == dev'.down \ dev.down # {}

(* C36: a key goes down only when main() has taken a well-formed PRESS or HOLD line,
   or inside the key loop of a well-formed START line; when main() takes any other
   line (STOP, an unknown command, a malformed PRESS, HOLD or START) no key moves and
   main() goes on with the rest of its buffer. *)
C36_KeysOnlyForWellFormed ==
    [][ /\ KeyGoesDown =>
             \/ TakesLine /\ WellFormedPress(dev'.line) /\ dev'.pc = "press_sleep"
             \/ TakesLine /\ WellFormedHold(dev'.line) /\ dev'.pc = "hold_sleep"
             \/ dev.pc = "loop_press" /\ WellFormedStart(dev.line)
        /\ (TakesLine /\ ~WellFormedPress(dev'.line) /\ ~WellFormedHold(dev'.line)
                      /\ ~WellFormedStart(dev'.line)) =>
             /\ dev'.down = dev.down
             /\ dev'.pc = "main_lines"
             /\ dev'.keys = dev.keys
        /\ (TakesLine /\ dev'.pc = "loop_top") => WellFormedStart(dev'.line)
      ]_vars

(* A HOLD line with duration 0 has been taken and dropped: no key is down and main()
   goes on reading *)
C36_Witness ==
    /\ dev.line = << "H", "O", "L", "D", ";", "a", ";", "0" >>
    /\ dev.pc = "main_lines"
    /\ dev.down = {}
    /\ dev.line_buf = << >>

(* C37: while main() waits for or looks for its next command no key is down; inside
   the key loop a key is down only between its press and its release, which is the
   next thing the loop does. *)
C37_NoKeyHeldWhileWaiting ==
    /\ Listening => dev.down = {}
    /\ dev.pc \in {"loop_top", "loop_press", "loop_drain"} => dev.down = {}
    /\ dev.pc = "loop_release" => dev.down = {dev.keys[dev.idx]}
    /\ dev.pc \in {"press_sleep", "hold_sleep"} => Cardinality(dev.down) = 1

(* A HOLD has run to its end: the line main() took last is the HOLD, its key is up
   again and main() is back at its buffer *)
C37_Witness ==
    /\ dev.line = << "H", "O", "L", "D", ";", "a", ";", "2" >>
    /\ dev.pc = "main_lines"
    /\ dev.down = {}

====
